---- MODULE Spec2Model ----
(***************************************************************************)
(* Two-party secret-sharing runtime of fss_v2: the additive engine over    *)
(* Z/2^k, the boolean engine over F_2, Beaver-triple multiplication, the   *)
(* Party::SendRecv exchange and the socket loops SendData / RecvData.      *)
(*                                                                         *)
(* Machine words: the code computes in uint32_t.  The model keeps the      *)
(* layout (a word is BytesPerWord bytes, least significant first) and      *)
(* scales the byte down to ByteBits bits, so a word has WordBits bits and  *)
(* every uint32_t operation wraps modulo 2^WordBits.                       *)
(***************************************************************************)
EXTENDS Integers, Sequences, FiniteSets, TLC

VARIABLES
    bitsize,            \* AdditiveSecretSharing::bitsize_
    op,                 \* the engine operation both parties execute
    env,                \* socket layer: [short, cap]
    pc,                 \* pc[p]: where party p is in its call
    args,               \* args[p]: the arguments party p passes to the operation
    buf,                \* buf[p][0], buf[p][1]: the byte images of x_0 and x_1 in SendRecv
    tot,                \* tot[p]: total_sent_bytes / total_received_bytes of the running loop
    chan,               \* chan[p]: bytes written by p and not yet read by its peer
    wire,               \* wire[p]: every byte p's current SendRecv has put on the stream
    rcvd,               \* rcvd[p]: every byte p's current SendRecv has taken from the stream
    ret,                \* ret[p]: the value the operation returned to party p
    total_bytes_sent,   \* Server/Client::total_bytes_sent_ of the active endpoint
    log,                \* log[p]: the socket-call events of party p, in order
    clear,              \* the dealer's clear values behind the shares
    is_started,         \* Party::is_started_
    fds,                \* fds[p]: p0_.server_fd_, p0_.client_fd_ and p1_.client_fd_ of party p
    open,               \* open[p]: the descriptor table of process p
    exit_code,          \* exit_code[p]: the status process p passed to exit()
    round,              \* round[p]: the SendRecv calls party p has entered
    sends,              \* sends[p]: the SendValue calls that succeeded since the last clear
    fault,              \* fault[p]: the last send()/recv() result <= 0 seen by party p
    released,           \* released[p]: what p's EndCommunication / destructor calls released
    engine,             \* outcome of constructing the AdditiveSecretSharing object
    oob,                \* oob[p]: party p read a vector element past its end
    used,               \* used[p][i]: the multiplications party p has run on its i-th triple
    setup,              \* setup[p]: the socket(), accept() and connect() calls of party p
    store,              \* the triple file and the ShareHandler call made on it
    driver              \* the command line given to main and how main ended

\* Party, Server/Client and process state outside the exchange itself
party_vars == <<is_started, fds, open, exit_code, round, sends, fault, released>>

\* the callers of the engine: triple bookkeeping, connection setup, files, main
host_vars == <<used, setup, store, driver>>

engine_vars == <<engine, oob, host_vars>>

vars == <<bitsize, op, env, pc, args, buf, tot, chan, wire, rcvd, ret,
          total_bytes_sent, log, clear, party_vars, engine_vars>>

(***************************************************************************)
(* Bounds and program constants                                            *)
(***************************************************************************)
BytesPerWord == 4
ByteBits == 1
MinBitsize == 2
SockBuf == 3
MaxVecLen == 2
MaxRounds == 4
SessionRounds == 2

WordBits == BytesPerWord * ByteBits
WordMod == 2 ^ WordBits
ByteMod == 2 ^ ByteBits
Word == 0 .. (WordMod - 1)
Parties == {0, 1}
Peer(p) == 1 - p

Min(a, b) == IF a < b THEN a ELSE b

(***************************************************************************)
(* uint32_t arithmetic and bit operations                                  *)
(***************************************************************************)
\* conversion of an integer result to uint32_t (wraps)
U32(x) == ((x % WordMod) + WordMod) % WordMod

RECURSIVE BitAnd(_, _)
BitAnd(x, y) ==
    IF x = 0 \/ y = 0 THEN 0
    ELSE ((x % 2) * (y % 2)) + 2 * BitAnd(x \div 2, y \div 2)

RECURSIVE BitXor(_, _)
BitXor(x, y) ==
    IF x = 0 THEN y
    ELSE IF y = 0 THEN x
    ELSE ((x + y) % 2) + 2 * BitXor(x \div 2, y \div 2)

\* Mod with the mask shifted in a word-wide int (the shift count taken modulo the width)
ModWordShift(value, bits) == U32(BitAnd(U32(value), (2 ^ (bits % WordBits)) - 1))

\* utils::Mod: value & ((1UL << bitsize) - 1UL), returned as uint32_t
Mod(value, bits) == U32(BitAnd(U32(value), (2 ^ bits) - 1))

\* rng::SecureRng::RandBool() converted to uint32_t
BoolToWord(b) == IF b THEN 1 ELSE 0

Triplet(va, vb, vc) == [a |-> va, b |-> vb, c |-> vc]

(***************************************************************************)
(* Additive engine, local parts                                            *)
(***************************************************************************)
\* AdditiveSecretSharing::Share(x) with Rand64() = r
AdditiveShare(k, x, r) ==
    LET x_0 == Mod(r, k)
        x_1 == Mod(U32(x - x_0), k)
    IN  <<x_0, x_1>>

\* Reconst without the final reduction
AdditiveCombineNoMod(k, x_0, x_1) == U32(x_0 + x_1)

\* AdditiveSecretSharing::Reconst, after the exchange
AdditiveCombine(k, x_0, x_1) == Mod(U32(x_0 + x_1), k)

\* AdditiveSecretSharing::GenerateBeaverTriples, one triple, Rand64() = ra, rb
AdditiveGenerateBeaverTriple(k, ra, rb) ==
    LET val_a == Mod(ra, k)
        val_b == Mod(rb, k)
        val_c == Mod(U32(val_a * val_b), k)
    IN  Triplet(val_a, val_b, val_c)

\* ShareBeaverTriples with c split independently of the clear c
AdditiveShareBeaverTripleFreshC(k, bt, ra, rb, rc) ==
    <<Triplet(Mod(ra, k), Mod(rb, k), Mod(rc, k)),
      Triplet(Mod(U32(bt.a - Mod(ra, k)), k), Mod(U32(bt.b - Mod(rb, k)), k), Mod(rc, k))>>

\* AdditiveSecretSharing::ShareBeaverTriples, one triple, Rand64() = ra, rb, rc
AdditiveShareBeaverTriple(k, bt, ra, rb, rc) ==
    LET a0 == Mod(ra, k)
        a1 == Mod(U32(bt.a - a0), k)
        b0 == Mod(rb, k)
        b1 == Mod(U32(bt.b - b0), k)
        c0 == Mod(rc, k)
        c1 == Mod(U32(bt.c - c0), k)
    IN  <<Triplet(a0, b0, c0), Triplet(a1, b1, c1)>>

\* Mult submitting the operand shares themselves
MultMaskNone(k, bt, x, y) == <<Mod(x, k), Mod(y, k)>>

\* AdditiveSecretSharing::Mult, the masked differences a party submits
MultMask(k, bt, x, y) ==
    <<Mod(U32(x - bt.a), k), Mod(U32(y - bt.b), k)>>

\* Mult with the d*e term added by both parties
MultCombineBothAdd(id, k, bt, de) ==
    Mod(U32(U32(de[2] * bt.a) + U32(de[1] * bt.b) + bt.c + U32(de[1] * de[2])), k)

\* AdditiveSecretSharing::Mult, the combine step on the reconstructed de
MultCombine(id, k, bt, de) ==
    IF id = 0
    THEN Mod(U32(U32(de[2] * bt.a) + U32(de[1] * bt.b) + bt.c + U32(de[1] * de[2])), k)
    ELSE Mod(U32(U32(de[2] * bt.a) + U32(de[1] * bt.b) + bt.c), k)

(***************************************************************************)
(* Boolean engine, local parts                                             *)
(***************************************************************************)
\* Share with the second share not masked by the first
BooleanShareUnmasked(x, r) == <<BoolToWord(r), x>>

\* BooleanSecretSharing::Share(x) with RandBool() = r
BooleanShare(x, r) ==
    LET x_0 == BoolToWord(r)
        x_1 == BitXor(x, x_0)
    IN  <<x_0, x_1>>

\* BooleanSecretSharing::Reconst, after the exchange
BooleanCombine(x_0, x_1) == BitXor(x_0, x_1)

\* BooleanSecretSharing::GenerateBeaverTriples, one triple
BooleanGenerateBeaverTriple(ra, rb) ==
    LET val_a == BoolToWord(ra)
        val_b == BoolToWord(rb)
        val_c == BitAnd(val_a, val_b)
    IN  Triplet(val_a, val_b, val_c)

\* BooleanSecretSharing::ShareBeaverTriples, one triple
BooleanShareBeaverTriple(bt, ra, rb, rc) ==
    LET a0 == BoolToWord(ra)
        a1 == BitXor(bt.a, a0)
        b0 == BoolToWord(rb)
        b1 == BitXor(bt.b, b0)
        c0 == BoolToWord(rc)
        c1 == BitXor(bt.c, c0)
    IN  <<Triplet(a0, b0, c0), Triplet(a1, b1, c1)>>

\* BooleanSecretSharing::And, the masked differences a party submits
AndMask(bt_b, x_b, y_b) == <<BitXor(x_b, bt_b.a), BitXor(y_b, bt_b.b)>>

\* And with the d&e term added by neither party
AndCombineNoCorrection(id, bt_b, de) ==
    BitXor(BitXor(BitAnd(de[2], bt_b.a), BitAnd(de[1], bt_b.b)), bt_b.c)

\* BooleanSecretSharing::And, the combine step on the reconstructed de
AndCombine(id, bt_b, de) ==
    IF id = 0
    THEN BitXor(BitXor(BitXor(BitAnd(de[2], bt_b.a), BitAnd(de[1], bt_b.b)), bt_b.c),
                BitAnd(de[1], de[2]))
    ELSE BitXor(BitXor(BitAnd(de[2], bt_b.a), BitAnd(de[1], bt_b.b)), bt_b.c)

\* Or with both parties flipping their operand shares
OrOperandsBothFlip(id, x_b, y_b) == <<BitXor(x_b, 1), BitXor(y_b, 1)>>

\* BooleanSecretSharing::Or, the operands handed to And
OrOperands(id, x_b, y_b) ==
    IF id = 0 THEN <<BitXor(x_b, 1), BitXor(y_b, 1)>> ELSE <<x_b, y_b>>

\* Or with party 0 complementing the whole word of And's result
OrResultComplement(id, zb) == IF id = 0 THEN U32(WordMod - 1 - zb) ELSE zb

\* BooleanSecretSharing::Or, the value returned from And's result
OrResult(id, zb) == IF id = 0 THEN BitXor(zb, 1) ELSE zb

(***************************************************************************)
(* Byte images: reinterpret_cast<const char *>(&value), least significant  *)
(* byte first                                                              *)
(***************************************************************************)
ToBytes(w) == [i \in 1 .. BytesPerWord |-> (w \div (ByteMod ^ (i - 1))) % ByteMod]

RECURSIVE FromBytes(_)
FromBytes(bs) ==
    IF bs = <<>> THEN 0 ELSE Head(bs) + ByteMod * FromBytes(Tail(bs))

RECURSIVE WordsToBytes(_)
WordsToBytes(ws) ==
    IF ws = <<>> THEN <<>> ELSE ToBytes(Head(ws)) \o WordsToBytes(Tail(ws))

BytesToWords(bs) ==
    [i \in 1 .. (Len(bs) \div BytesPerWord) |->
        FromBytes(SubSeq(bs, (i - 1) * BytesPerWord + 1, i * BytesPerWord))]

\* a receive that leaves the caller's buffer as it was
OverwriteNothing(dst, off, src) == dst

\* dst with dst[off+1 .. off+Len(src)] overwritten by src
Overwrite(dst, off, src) ==
    [i \in 1 .. Len(dst) |->
        IF i > off /\ i <= off + Len(src) THEN src[i - off] ELSE dst[i]]

(***************************************************************************)
(* Vector and pair forms of Mult, And and Or, local parts.  The arguments  *)
(* are a record: the vectors x, y and bt, num = z_vec.size(), and junk,    *)
(* the word that lies in memory behind the end of a vector                 *)
(***************************************************************************)
VecArgs(bt_vec, x_vec, y_vec, num, junk) ==
    [x_0 |-> <<>>, x_1 |-> <<>>, x |-> x_vec, y |-> y_vec, bt |-> bt_vec,
     num |-> num, junk |-> junk]

\* vec[i] of the code (i counted from 0); behind the end of the vector lies junk
At(vec, i, junk) == IF i < Len(vec) THEN vec[i + 1] ELSE junk

\* bt_vec[i] of the code
TripletAt(a, i) == At(a.bt, i, Triplet(a.junk, a.junk, a.junk))

\* the first loop of the vector operations reads x_vec[i], y_vec[i], bt_vec[i] for
\* every i < z_vec.size(): some of these reads lie behind the end of a vector
ReadsOutOfRange(a) == Len(a.x) < a.num \/ Len(a.y) < a.num \/ Len(a.bt) < a.num

\* vector Mult, first loop: de_vec_<id>[2 * i] and de_vec_<id>[2 * i + 1] for i < num
MultMaskVec(k, a) ==
    [j \in 1 .. 2 * a.num |->
        LET i == (j - 1) \div 2
        IN  IF j - 1 = 2 * i
            THEN Mod(U32(At(a.x, i, a.junk) - TripletAt(a, i).a), k)
            ELSE Mod(U32(At(a.y, i, a.junk) - TripletAt(a, i).b), k)]

\* vector Mult with de_vec[2 * i] and de_vec[2 * i + 1] taken the other way round
MultCombineVecSwapped(id, k, a, de_vec) ==
    [n \in 1 .. a.num |->
        LET i  == n - 1
            bt == TripletAt(a, i)
            d  == de_vec[2 * i + 2]
            e  == de_vec[2 * i + 1]
        IN  Mod(U32(U32(e * bt.a) + U32(d * bt.b) + bt.c
                    + (IF id = 0 THEN U32(d * e) ELSE 0)), k)]

\* vector Mult, second loop: z_vec[i] from de_vec[2 * i] and de_vec[2 * i + 1]
MultCombineVec(id, k, a, de_vec) ==
    [n \in 1 .. a.num |->
        LET i  == n - 1
            bt == TripletAt(a, i)
            d  == de_vec[2 * i + 1]
            e  == de_vec[2 * i + 2]
        IN  Mod(U32(U32(e * bt.a) + U32(d * bt.b) + bt.c
                    + (IF id = 0 THEN U32(d * e) ELSE 0)), k)]

\* Mult2: de_<id>[0 .. 3] from (bt1, x1, y1) and (bt2, x2, y2)
Mult2Mask(k, a) ==
    <<Mod(U32(a.x[1] - a.bt[1].a), k), Mod(U32(a.y[1] - a.bt[1].b), k),
      Mod(U32(a.x[2] - a.bt[2].a), k), Mod(U32(a.y[2] - a.bt[2].b), k)>>

\* Mult2: z[0] from de[0], de[1] and bt1, z[1] from de[2], de[3] and bt2
Mult2Combine(id, k, a, de) ==
    <<Mod(U32(U32(de[2] * a.bt[1].a) + U32(de[1] * a.bt[1].b) + a.bt[1].c
              + (IF id = 0 THEN U32(de[1] * de[2]) ELSE 0)), k),
      Mod(U32(U32(de[4] * a.bt[2].a) + U32(de[3] * a.bt[2].b) + a.bt[2].c
              + (IF id = 0 THEN U32(de[3] * de[4]) ELSE 0)), k)>>

\* vector And, first loop
AndMaskVec(a) ==
    [j \in 1 .. 2 * a.num |->
        LET i == (j - 1) \div 2
        IN  IF j - 1 = 2 * i
            THEN BitXor(At(a.x, i, a.junk), TripletAt(a, i).a)
            ELSE BitXor(At(a.y, i, a.junk), TripletAt(a, i).b)]

\* vector And, second loop
AndCombineVec(id, a, de_vec) ==
    [n \in 1 .. a.num |->
        LET i   == n - 1
            bt  == TripletAt(a, i)
            d   == de_vec[2 * i + 1]
            e   == de_vec[2 * i + 2]
            z_1 == BitXor(BitXor(BitAnd(e, bt.a), BitAnd(d, bt.b)), bt.c)
        IN  IF id = 0 THEN BitXor(z_1, BitAnd(d, e)) ELSE z_1]

\* vector Or: party 0 hands nxb_vec, nyb_vec (num words each) to And, party 1 its operands
OrOperandsVec(id, a) ==
    IF id = 0
    THEN [a EXCEPT !.x = [n \in 1 .. a.num |-> BitXor(At(a.x, n - 1, a.junk), 1)],
                   !.y = [n \in 1 .. a.num |-> BitXor(At(a.y, n - 1, a.junk), 1)]]
    ELSE a

\* vector Or: party 0 flips every element of And's result
OrResultVec(id, zb_vec) ==
    IF id = 0 THEN [n \in 1 .. Len(zb_vec) |-> BitXor(zb_vec[n], 1)] ELSE zb_vec

(***************************************************************************)
(* Triple files: text of decimal numbers, one count line and one line      *)
(* "a,b,c" per triple.  A text is a sequence of one-character strings.      *)
(***************************************************************************)
Digits == <<"0", "1", "2", "3", "4", "5", "6", "7", "8", "9">>
Newline == "\n"
Comma == ","

IsDigit(c) == \E d \in 1 .. Len(Digits) : Digits[d] = c
DigitValue(c) == (CHOOSE d \in 1 .. Len(Digits) : Digits[d] = c) - 1

RECURSIVE ToDecimal(_)
\* operator<<(std::ostream &, uint32_t): the decimal digits of n
ToDecimal(n) ==
    IF n < Len(Digits) THEN <<Digits[n + 1]>>
    ELSE ToDecimal(n \div Len(Digits)) \o <<Digits[(n % Len(Digits)) + 1]>>

IsNumber(cs) == cs # <<>> /\ \A i \in 1 .. Len(cs) : IsDigit(cs[i])

RECURSIVE ParseDecimal(_)
\* the value of a string of decimal digits, stored into a uint32_t
ParseDecimal(cs) ==
    IF cs = <<>> THEN 0
    ELSE U32(Len(Digits) * ParseDecimal(SubSeq(cs, 1, Len(cs) - 1)) + DigitValue(cs[Len(cs)]))

\* the pieces of cs between the occurrences of sep; a trailing sep ends the last piece
\* when closed (std::getline), and starts an empty one otherwise
RECURSIVE Split(_, _, _)
Split(cs, sep, closed) ==
    IF cs = <<>> THEN (IF closed THEN <<>> ELSE << <<>> >>)
    ELSE IF \E i \in 1 .. Len(cs) : cs[i] = sep
         THEN LET i == CHOOSE j \in 1 .. Len(cs) :
                         cs[j] = sep /\ \A h \in 1 .. (j - 1) : cs[h] # sep
              IN  <<SubSeq(cs, 1, i - 1)>> \o Split(SubSeq(cs, i + 1, Len(cs)), sep, closed)
         ELSE <<cs>>

\* the lines std::getline returns, one after the other, until it fails
Lines(text) == Split(text, Newline, TRUE)

RECURSIVE Concat(_)
Concat(ss) == IF ss = <<>> THEN <<>> ELSE Head(ss) \o Concat(Tail(ss))

\* a triple line written with its last two fields exchanged
FormatTripletSwapped(bt) ==
    ToDecimal(bt.a) \o <<Comma>> \o ToDecimal(bt.c) \o <<Comma>> \o ToDecimal(bt.b)
        \o <<Newline>>

\* WriteBeaverTriplesToFile: file << bt_vec[i].a << "," << bt_vec[i].b << "," << bt_vec[i].c << "\n"
FormatTriplet(bt) ==
    ToDecimal(bt.a) \o <<Comma>> \o ToDecimal(bt.b) \o <<Comma>> \o ToDecimal(bt.c)
        \o <<Newline>>

\* WriteBeaverTriplesToFile: the text written for bt_vec
TriplesText(bt_vec) ==
    ToDecimal(Len(bt_vec)) \o <<Newline>>
        \o Concat([i \in 1 .. Len(bt_vec) |-> FormatTriplet(bt_vec[i])])

\* FileIo::ReadNumCountFromFile: the number on the first line; "If the format is invalid
\* or unable to read, it returns zero (0)"
ReadNumCount(lines) ==
    IF lines # <<>> /\ IsNumber(lines[1]) THEN ParseDecimal(lines[1]) ELSE 0

\* FileIo::SplitStringToUint32: the numbers between the commas of a line
SplitStringToUint32(line) ==
    LET fields == IF line = <<>> THEN <<>> ELSE Split(line, Comma, FALSE)
    IN  [i \in 1 .. Len(fields) |-> ParseDecimal(fields[i])]

\* the data lines the loop of ReadBeaverTriplesFromFile gets: one std::getline per
\* i < size, none once the file has ended
DataLines(text) ==
    LET lines == Lines(text)
    IN  SubSeq(lines, 2, Min(ReadNumCount(lines) + 1, Len(lines)))

\* ReadBeaverTriplesFromFile indexes vec[0], vec[1], vec[2] of a line with fewer fields
FieldsMissing(text) ==
    \E i \in 1 .. Len(DataLines(text)) : Len(SplitStringToUint32(DataLines(text)[i])) < 3

\* ReadBeaverTriplesFromFile: bts after the loop; a missing field reads as junk
ReadTriples(text, junk) ==
    [i \in 1 .. Len(DataLines(text)) |->
        LET vec == SplitStringToUint32(DataLines(text)[i])
        IN  Triplet(At(vec, 0, junk), At(vec, 1, junk), At(vec, 2, junk))]

(***************************************************************************)
(* The operations and what each does around its SendRecv                   *)
(***************************************************************************)
ScalarOps == {"Reconst", "BoolReconst", "SendRecvValue"}
ArrayOps == {"Mult", "And", "Or", "SendRecvArray2", "SendRecvArray4"}
VectorOps == {"SendRecvVector"}
BatchOps == {"MultVec", "AndVec", "OrVec"}
PairOps == {"Mult2"}
RawOps == {"SendRecvValue", "SendRecvVector", "SendRecvArray2", "SendRecvArray4"}

NoTriplet == Triplet(0, 0, 0)
Args(x0, x1, xx, yy, tt) == [x_0 |-> x0, x_1 |-> x1, x |-> xx, y |-> yy, bt |-> tt]
NoArgs == Args(<<>>, <<>>, 0, 0, NoTriplet)

Zeros(n) == [i \in 1 .. n |-> 0]

\* de_0 / de_1 of Mult and And: the caller's own entry filled, the other {0, 0}
OwnAndZero(id, own) == IF id = 0 THEN <<own, <<0, 0>>>> ELSE <<<<0, 0>>, own>>

\* the other vector left without room
OwnAndNothing(id, own) == IF id = 0 THEN <<own, <<>>>> ELSE <<<<>>, own>>

\* de_vec_0 / de_vec_1 (and de_0 / de_1 of Mult2): the caller's own filled, the other zeros
OwnAndZeros(id, own) ==
    IF id = 0 THEN <<own, Zeros(Len(own))>> ELSE <<Zeros(Len(own)), own>>

\* The pair (x_0, x_1) of word sequences the operation hands to Party::SendRecv
ExchangeOperands(o, id, k, a) ==
    CASE o = "Mult" -> OwnAndZero(id, MultMask(k, a.bt, a.x, a.y))
      [] o = "And"  -> OwnAndZero(id, AndMask(a.bt, a.x, a.y))
      [] o = "Or"   -> OwnAndZero(id, AndMask(a.bt, OrOperands(id, a.x, a.y)[1],
                                              OrOperands(id, a.x, a.y)[2]))
      [] o = "MultVec" -> OwnAndZeros(id, MultMaskVec(k, a))
      [] o = "Mult2"   -> OwnAndZeros(id, Mult2Mask(k, a))
      [] o = "AndVec"  -> OwnAndZeros(id, AndMaskVec(a))
      [] o = "OrVec"   -> OwnAndZeros(id, AndMaskVec(OrOperandsVec(id, a)))
      [] OTHER      -> <<a.x_0, a.x_1>>

\* Reconst on arrays, after the exchange: element-wise combine
AdditiveCombineArray(k, x_arr_0, x_arr_1) ==
    [i \in 1 .. Len(x_arr_0) |-> AdditiveCombine(k, x_arr_0[i], x_arr_1[i])]

BooleanCombineArray(x_arr_0, x_arr_1) ==
    [i \in 1 .. Len(x_arr_0) |-> BooleanCombine(x_arr_0[i], x_arr_1[i])]

\* What the operation returns once SendRecv has returned with (x_0, x_1)
Result(o, id, k, a, x0, x1) ==
    CASE o = "Reconst"     -> AdditiveCombine(k, x0[1], x1[1])
      [] o = "BoolReconst" -> BooleanCombine(x0[1], x1[1])
      [] o = "Mult"        -> MultCombine(id, k, a.bt, AdditiveCombineArray(k, x0, x1))
      [] o = "And"         -> AndCombine(id, a.bt, BooleanCombineArray(x0, x1))
      [] o = "Or"          -> OrResult(id, AndCombine(id, a.bt, BooleanCombineArray(x0, x1)))
      [] o = "MultVec"     -> MultCombineVec(id, k, a, AdditiveCombineArray(k, x0, x1))
      [] o = "Mult2"       -> Mult2Combine(id, k, a, AdditiveCombineArray(k, x0, x1))
      [] o = "AndVec"      -> AndCombineVec(id, a, BooleanCombineArray(x0, x1))
      [] o = "OrVec"       -> OrResultVec(id, AndCombineVec(id, OrOperandsVec(id, a),
                                                            BooleanCombineArray(x0, x1)))
      [] OTHER             -> 0

(***************************************************************************)
(* Descriptors and the connection                                          *)
(***************************************************************************)
\* descriptors 0, 1, 2 are the standard streams of the process
StdFds == 0 .. 2

\* descriptor numbers a process uses: the standard streams and up to two sockets
Fds == 0 .. (Cardinality(StdFds) + 1)

\* exit(EXIT_FAILURE)
EXIT_FAILURE == 1

\* the descriptor table of a fresh process
FreshTable == [f \in Fds |-> IF f \in StdFds THEN "stdio" ELSE "closed"]

NoneOpen == [f \in Fds |-> "closed"]

\* what descriptor f refers to in table t (an int that is no open descriptor: "closed")
Kind(t, f) == IF f \in Fds THEN t[f] ELSE "closed"

\* socket() / accept(): the lowest-numbered descriptor not in use
LowestFree(t) == CHOOSE f \in Fds : t[f] = "closed" /\ \A g \in Fds : g < f => t[g] # "closed"

\* close(f): an int that is no open descriptor fails with EBADF and changes nothing
Close(t, f) == IF f \in Fds THEN [t EXCEPT ![f] = "closed"] ELSE t

\* Server::CloseSocket then Client::CloseSocket, on the members as they are
CloseBoth(t, d) == Close(Close(Close(t, d.server_fd), d.client_fd), d.p1_client_fd)

\* the kinds of open descriptors a sequence of close() calls on ds releases from t
RECURSIVE Releases(_, _)
Releases(t, ds) ==
    IF ds = <<>> THEN {}
    ELSE (IF Kind(t, Head(ds)) = "closed" THEN {} ELSE {Kind(t, Head(ds))})
         \cup Releases(Close(t, Head(ds)), Tail(ds))

\* the descriptor SendValue / RecvValue of the active endpoint pass to send() / recv()
ActiveFd(id, d) == IF id = 0 THEN d.client_fd ELSE d.p1_client_fd

\* party p's descriptor is its end of the connection
Usable(p) == Kind(open[p], ActiveFd(p, fds[p])) = "conn"

HasConn(p) == \E f \in Fds : open[p][f] = "conn"

\* connect() succeeding whether or not the peer listens
ListeningAssumed(p) == TRUE

Listening(p) == \E f \in Fds : open[p][f] = "listener"

\* party p's end of the established connection has been closed
EndClosed(p) == is_started[p] /\ ~HasConn(p)

(***************************************************************************)
(* Party::SendRecv and the socket loops                                    *)
(***************************************************************************)
\* SendRecv with both parties sending before they receive
PhasesBothSendFirst(id) == <<"send", "recv">>

\* Party::SendRecv: the order of the two transport calls for party id
Phases(id) == IF id = 0 THEN <<"send", "recv">> ELSE <<"recv", "send">>

CurPhase(p) ==
    CASE pc[p] = "first"  -> Phases(p)[1]
      [] pc[p] = "second" -> Phases(p)[2]
      [] OTHER            -> "none"

\* SendData: the bytes handed to send() by one iteration, total_sent_bytes so far
SendDataRequest(data, total_sent_bytes) == data

\* RecvData: the window of the buffer handed to recv() by one iteration
RecvDataWindow(buffer_size, total_received_bytes) == [off |-> 0, len |-> buffer_size]

\* SendVector / SendArray: "writes all of buf; loops on short writes until the
\* full length has been acknowledged"
SendBytesRequest(data, total_sent_bytes) ==
    SubSeq(data, total_sent_bytes + 1, Len(data))

\* RecvVector / RecvArray: "reads exactly len(buf) bytes; loops on short reads"
RecvBytesWindow(buffer_size, total_received_bytes) ==
    [off |-> total_received_bytes, len |-> buffer_size - total_received_bytes]

SendRequest(o, data, total) ==
    IF o \in ScalarOps THEN SendDataRequest(data, total) ELSE SendBytesRequest(data, total)

RecvWindow(o, size, total) ==
    IF o \in ScalarOps THEN RecvDataWindow(size, total) ELSE RecvBytesWindow(size, total)

\* send(2) on a blocking stream socket: the counts it may return for a request of
\* `want` bytes with `free` bytes of buffer left (none: the call blocks)
SendCounts(e, want, free) ==
    IF e.short THEN 1 .. Min(want, free)
    ELSE IF want <= free THEN {want} ELSE {}

\* recv(2) on a blocking stream socket with `avail` bytes queued
RecvCounts(e, want, avail) ==
    IF e.short THEN 1 .. Min(want, avail)
    ELSE IF avail > 0 THEN {Min(want, avail)} ELSE {}

\* SendValue counting the bytes before it has looked at is_sent
CountAfterSendUnchecked(is_sent, total, size) == U32(total + size)

\* Server/Client::SendValue: total_bytes_sent_ once SendData has returned is_sent
\* (while the loop of SendData is still running nothing is counted)
CountAfterSend(is_sent, total, size) == IF is_sent THEN U32(total + size) ELSE total

\* The operation enters Party::SendRecv with its operands laid out in memory
Call(p) ==
    /\ pc[p] = "call"
    /\ LET xs == ExchangeOperands(op, p, bitsize, args[p])
       IN  buf' = [buf EXCEPT ![p] = <<WordsToBytes(xs[1]), WordsToBytes(xs[2])>>]
    /\ pc' = [pc EXCEPT ![p] = "first"]
    /\ tot' = [tot EXCEPT ![p] = 0]
    /\ oob' = [oob EXCEPT ![p] = op \in BatchOps /\ ReadsOutOfRange(args[p])]
    /\ UNCHANGED <<bitsize, op, env, args, chan, wire, rcvd, ret, total_bytes_sent,
                   log, clear, party_vars, engine, host_vars>>

\* The transport call of the current phase has returned (fin) or loops on
Advance(p, fin, newbuf) ==
    IF ~fin THEN UNCHANGED <<pc, ret>>
    ELSE IF pc[p] = "first"
         THEN pc' = [pc EXCEPT ![p] = "second"] /\ UNCHANGED ret
         ELSE /\ pc' = [pc EXCEPT ![p] = "done"]
              /\ ret' = [ret EXCEPT ![p] =
                            Result(op, p, bitsize, args[p],
                                   BytesToWords(newbuf[1]), BytesToWords(newbuf[2]))]

Events(first, fin, what) ==
    (IF first THEN <<what \o "_begin">> ELSE <<>>) \o (IF fin THEN <<what \o "_end">> ELSE <<>>)

\* One send() call of SendValue / SendVector / SendArray and the loop test after it
Send(p) ==
    /\ CurPhase(p) = "send"
    /\ Usable(p)
    /\ LET data == buf[p][p + 1]
           req  == SendRequest(op, data, tot[p])
           free == env.cap - Len(chan[p])
       IN  \E n \in SendCounts(env, Len(req), free) :
             LET put == SubSeq(req, 1, n)
                 t   == tot[p] + n
                 fin == t >= Len(data)
             IN  /\ chan' = [chan EXCEPT ![p] = IF EndClosed(Peer(p)) THEN @ ELSE @ \o put]
                 /\ wire' = [wire EXCEPT ![p] = @ \o put]
                 /\ tot' = [tot EXCEPT ![p] = IF fin THEN 0 ELSE t]
                 /\ total_bytes_sent' =
                        [total_bytes_sent EXCEPT ![p] = CountAfterSend(fin, @, Len(data))]
                 /\ sends' = [sends EXCEPT ![p] = IF fin THEN @ + 1 ELSE @]
                 /\ log' = [log EXCEPT ![p] = @ \o Events(tot[p] = 0, fin, "send")]
                 /\ Advance(p, fin, buf[p])
    /\ UNCHANGED <<bitsize, op, env, args, buf, rcvd, clear, engine_vars>>
    /\ UNCHANGED <<is_started, fds, open, exit_code, round, fault, released>>

\* One recv() call of RecvValue / RecvVector / RecvArray and the loop test after it
Recv(p) ==
    /\ CurPhase(p) = "recv"
    /\ Usable(p)
    /\ LET buffer == buf[p][Peer(p) + 1]
           win    == RecvWindow(op, Len(buffer), tot[p])
           queue  == chan[Peer(p)]
       IN  \E n \in RecvCounts(env, win.len, Len(queue)) :
             LET got    == SubSeq(queue, 1, n)
                 t      == tot[p] + n
                 fin    == t >= Len(buffer)
                 newbuf == [buf[p] EXCEPT ![Peer(p) + 1] = Overwrite(buffer, win.off, got)]
             IN  /\ chan' = [chan EXCEPT ![Peer(p)] = SubSeq(queue, n + 1, Len(queue))]
                 /\ rcvd' = [rcvd EXCEPT ![p] = @ \o got]
                 /\ buf' = [buf EXCEPT ![p] = newbuf]
                 /\ tot' = [tot EXCEPT ![p] = IF fin THEN 0 ELSE t]
                 /\ log' = [log EXCEPT ![p] = @ \o Events(tot[p] = 0, fin, "recv")]
                 /\ Advance(p, fin, newbuf)
    /\ UNCHANGED <<bitsize, op, env, args, wire, total_bytes_sent, clear,
                   party_vars, engine_vars>>

\* A step of party p's process
Step(p) == Call(p) \/ Send(p) \/ Recv(p)

(***************************************************************************)
(* The life of a Party: StartCommunication, SendRecv rounds, the counter,  *)
(* transport failure, EndCommunication and the destructor                  *)
(***************************************************************************)
\* t with its lowest free descriptor now referring to a socket of the given kind
OpenAs(t, kind) == [t EXCEPT ![LowestFree(t)] = kind]

\* an int that names no descriptor
NoDescriptor == 0 - 1

\* the three descriptor members, none of them set by the constructors
UnsetFds(g) == [server_fd |-> g, client_fd |-> g, p1_client_fd |-> g]

\* descriptor table and members once StartCommunication has completed in a fresh process
StartedState(id, d) ==
    IF id = 0
    THEN LET t1 == OpenAs(FreshTable, "listener")
         IN  [open |-> OpenAs(t1, "conn"),
              fds  |-> [d EXCEPT !.server_fd = LowestFree(FreshTable),
                                 !.client_fd = LowestFree(t1)]]
    ELSE [open |-> OpenAs(FreshTable, "conn"),
          fds  |-> [d EXCEPT !.p1_client_fd = LowestFree(FreshTable)]]

NoFault == [call |-> "none", rv |-> 1, before |-> 0]

\* released[p] covers the closing calls made since p last opened a socket
NothingReleased == [calls |-> 0, first |-> {}, later |-> {}]

\* party p is between two calls of its Party object
Outside(p) == pc[p] \in {"idle", "done"}

\* exit(status): the process ends and the kernel closes every descriptor it holds
Exit(p, status) ==
    /\ pc' = [pc EXCEPT ![p] = "exited"]
    /\ exit_code' = [exit_code EXCEPT ![p] = status]
    /\ open' = [open EXCEPT ![p] = NoneOpen]

\* SendData / RecvData: a count of zero or below ends the loop with false
TransferFailedOnlyNegative(bytes) == bytes < 0

TransferFailed(bytes) == bytes <= 0

\* the results <= 0 that send() / recv() of party p can return in the current state
SendFailures(p) ==
    IF ~Usable(p) \/ EndClosed(Peer(p)) THEN {NoDescriptor, 0} ELSE {}

RecvFailures(p) ==
    IF ~Usable(p) THEN {NoDescriptor}
    ELSE IF chan[Peer(p)] = <<>> /\ EndClosed(Peer(p)) THEN {NoDescriptor, 0} ELSE {}

\* SendValue / RecvValue when the socket call returns rv <= 0:
\* SendData / RecvData returns false, then CloseSocket() and exit(EXIT_FAILURE)
TransportFails(p, what, rv) ==
    /\ fault' = [fault EXCEPT ![p] =
                    [call |-> what, rv |-> rv, before |-> total_bytes_sent[p]]]
    /\ total_bytes_sent' = [total_bytes_sent EXCEPT ![p] =
                               IF what = "send"
                               THEN CountAfterSend(~TransferFailed(rv), @, Len(buf[p][p + 1]))
                               ELSE @]
    /\ IF TransferFailed(rv)
       THEN Exit(p, EXIT_FAILURE)
       ELSE UNCHANGED <<pc, exit_code, open>>
    /\ UNCHANGED <<bitsize, op, env, args, buf, tot, chan, wire, rcvd, ret, log, clear,
                   is_started, fds, round, sends, released, engine_vars>>

SendFails(p) ==
    /\ CurPhase(p) = "send"
    /\ \E rv \in SendFailures(p) : TransportFails(p, "send", rv)

RecvFails(p) ==
    /\ CurPhase(p) = "recv"
    /\ \E rv \in RecvFailures(p) : TransportFails(p, "recv", rv)

\* send() on a connection whose peer is gone, SIGPIPE not handled: the process is killed
SendKilled(p) ==
    /\ CurPhase(p) = "send"
    /\ Usable(p) /\ EndClosed(Peer(p))
    /\ pc' = [pc EXCEPT ![p] = "killed"]
    /\ open' = [open EXCEPT ![p] = NoneOpen]
    /\ UNCHANGED <<bitsize, op, env, args, buf, tot, chan, wire, rcvd, ret, log, clear,
                   total_bytes_sent, is_started, fds, exit_code, round, sends, fault,
                   released, engine_vars>>

\* Party::ClearTotalBytesSent on the active endpoint
ClearCounter(p) ==
    /\ total_bytes_sent' = [total_bytes_sent EXCEPT ![p] = 0]
    /\ sends' = [sends EXCEPT ![p] = 0]

ClearTotalBytesSent(p) ==
    /\ Outside(p)
    /\ ClearCounter(p)
    /\ UNCHANGED <<bitsize, op, env, pc, args, buf, tot, chan, wire, rcvd, ret, log, clear,
                   is_started, fds, open, exit_code, round, fault, released, engine_vars>>

\* the member of Party that party id works through: the Server p0_ or the Client p1_
Endpoint(id) == IF id = 0 THEN "p0_" ELSE "p1_"

\* Party::EndCommunication: this->p0_.CloseSocket(); this->p1_.CloseSocket();
ClosedEndpoints(id) == {"p0_", "p1_"}

\* StartCommunication without its latch
AlreadyStartedNever(p) == FALSE

\* Party::StartCommunication: if (this->is_started_) return;
AlreadyStarted(p) == is_started[p]

\* Party::StartCommunication up to the blocking accept (party 0) or through connect
\* (party 1); on a started party it returns after clearing the counter
StartCommunication(p) ==
    /\ Outside(p)
    /\ ClearCounter(p)
    /\ released' = [released EXCEPT ![p] = IF AlreadyStarted(p) THEN @ ELSE NothingReleased]
    /\ IF AlreadyStarted(p)
       THEN /\ setup' = [setup EXCEPT ![p].again = TRUE, ![p].ends = @ \cup {Endpoint(p)}]
            /\ UNCHANGED <<pc, is_started, fds, open, exit_code>>
       ELSE IF p = 0
       THEN \* Server::Setup: socket, bind, listen; Server::Start: accept blocks
            /\ fds' = [fds EXCEPT ![p].server_fd = LowestFree(open[p])]
            /\ open' = [open EXCEPT ![p] = OpenAs(@, "listener")]
            /\ pc' = [pc EXCEPT ![p] = "accept"]
            /\ setup' = [setup EXCEPT ![p].socket = @ + 1, ![p].ends = @ \cup {Endpoint(p)}]
            /\ UNCHANGED <<is_started, exit_code>>
       ELSE \* Client::Setup: socket; Client::Start: connect, exit(EXIT_FAILURE) if refused
            /\ setup' = [setup EXCEPT ![p].socket = @ + 1, ![p].connect = @ + 1,
                                      ![p].ends = @ \cup {Endpoint(p)}]
            /\ IF Listening(Peer(p))
               THEN /\ fds' = [fds EXCEPT ![p].p1_client_fd = LowestFree(open[p])]
                    /\ open' = [open EXCEPT ![p] = OpenAs(@, "conn")]
                    /\ is_started' = [is_started EXCEPT ![p] = TRUE]
                    /\ UNCHANGED <<pc, exit_code>>
               ELSE /\ Exit(p, EXIT_FAILURE)
                    /\ fds' = [fds EXCEPT ![p].p1_client_fd = LowestFree(open[p])]
                    /\ UNCHANGED is_started
    /\ UNCHANGED <<bitsize, op, env, args, buf, tot, chan, wire, rcvd, ret, log, clear,
                   round, fault, engine, oob, used, store, driver>>

\* Server::Start: accept returns the pending connection; is_started_ = true
Accept(p) ==
    /\ pc[p] = "accept"
    /\ is_started[Peer(p)]
    /\ fds' = [fds EXCEPT ![p].client_fd = LowestFree(open[p])]
    /\ open' = [open EXCEPT ![p] = OpenAs(@, "conn")]
    /\ is_started' = [is_started EXCEPT ![p] = TRUE]
    /\ pc' = [pc EXCEPT ![p] = "idle"]
    /\ setup' = [setup EXCEPT ![p].accept = @ + 1]
    /\ UNCHANGED <<bitsize, op, env, args, buf, tot, chan, wire, rcvd, ret, log, clear,
                   total_bytes_sent, exit_code, round, sends, fault, released,
                   engine, oob, used, store, driver>>

\* the record of one more closing call that released the kinds rel
Released(r, rel) ==
    [calls |-> Min(r.calls + 1, 2),
     first |-> IF r.calls = 0 THEN rel ELSE r.first,
     later |-> IF r.calls = 0 THEN r.later ELSE r.later \cup rel]

\* p0_.CloseSocket() and p1_.CloseSocket(): by Party::EndCommunication (next = "idle")
\* or by the destructors of the two members (next = "destroyed")
CloseSockets(p, next) ==
    /\ Outside(p)
    /\ open' = [open EXCEPT ![p] = CloseBoth(@, fds[p])]
    /\ released' = [released EXCEPT ![p] =
                       Released(@, Releases(open[p], <<fds[p].server_fd, fds[p].client_fd,
                                                       fds[p].p1_client_fd>>))]
    /\ pc' = [pc EXCEPT ![p] = next]
    /\ setup' = [setup EXCEPT ![p].ends = @ \cup ClosedEndpoints(p)]
    /\ UNCHANGED <<bitsize, op, env, args, buf, tot, chan, wire, rcvd, ret, log, clear,
                   total_bytes_sent, is_started, fds, exit_code, round, sends, fault,
                   engine, oob, used, store, driver>>

EndCommunication(p) == CloseSockets(p, "idle")

Destroy(p) == CloseSockets(p, "destroyed")

(***************************************************************************)
(* Initial states: two started parties about to run operation o            *)
(***************************************************************************)
\* a socket layer whose calls always transfer the whole request
WholeBuffers == [short |-> FALSE, cap |-> BytesPerWord * (4 + MaxVecLen)]

\* no arithmetic engine in use (the boolean engine and the raw exchange have no width)
NoEngine == [status |-> "none", default |-> FALSE, arg |-> 0]

NewEngine == [status |-> "new", default |-> FALSE, arg |-> 0]

\* AdditiveSecretSharing(): bitsize_(32), the full width of uint32_t
DefaultBitsize == WordBits

\* the constructor rejecting only the width 0
BitsizeRejectedOnlyZero(k) == k < 1

\* AdditiveSecretSharing(uint32_t bitsize): if (bitsize <= 1) throw std::invalid_argument
BitsizeRejected(k) == k <= 1

\* the outcome of AdditiveSecretSharing() (default) or AdditiveSecretSharing(k)
Engine(default, k) ==
    [status  |-> IF ~default /\ BitsizeRejected(k) THEN "invalid_argument" ELSE "ok",
     default |-> default,
     arg     |-> k]

\* the triples a party holds, by index
PoolIndex == 1 .. MaxVecLen

NothingUsed == [i \in PoolIndex |-> 0]

NoSetup == [socket |-> 0, accept |-> 0, connect |-> 0, again |-> FALSE, ends |-> {}]

\* no ShareHandler call and no run of main in this system
NoStore == [call |-> "none"]

NoDriver == [status |-> "none"]

HostIdle ==
    /\ used = [p \in Parties |-> NothingUsed]
    /\ setup = [p \in Parties |-> NoSetup]
    /\ store = NoStore
    /\ driver = NoDriver

Dealt(x, y, t, xs, ys, ts) ==
    [x |-> x, y |-> y, bt |-> t, xs |-> xs, ys |-> ys, bts |-> ts]

InitExchange(o, k, e, start, a, c) ==
    /\ op = o
    /\ bitsize = k
    /\ env = e
    /\ pc = [p \in Parties |-> start]
    /\ args = a
    /\ clear = c
    /\ buf = [p \in Parties |-> <<<<>>, <<>>>>]
    /\ tot = [p \in Parties |-> 0]
    /\ chan = [p \in Parties |-> <<>>]
    /\ wire = [p \in Parties |-> <<>>]
    /\ rcvd = [p \in Parties |-> <<>>]
    /\ ret = [p \in Parties |-> 0]
    /\ total_bytes_sent = [p \in Parties |-> 0]
    /\ log = [p \in Parties |-> <<>>]
    /\ is_started = [p \in Parties |-> TRUE]
    /\ fds = [p \in Parties |-> StartedState(p, UnsetFds(NoDescriptor)).fds]
    /\ open = [p \in Parties |-> StartedState(p, UnsetFds(NoDescriptor)).open]
    /\ exit_code = [p \in Parties |-> 0]
    /\ round = [p \in Parties |-> 0]
    /\ sends = [p \in Parties |-> 0]
    /\ fault = [p \in Parties |-> NoFault]
    /\ released = [p \in Parties |-> NothingReleased]
    /\ engine = IF start = "new" THEN NewEngine
                ELSE IF k = 0 THEN NoEngine ELSE Engine(FALSE, k)
    /\ oob = [p \in Parties |-> FALSE]

InitParties(o, k, e, start, a, c) == InitExchange(o, k, e, start, a, c) /\ HostIdle

\* bit widths exercised: the smallest, one strictly inside the word, the full word
Bitsizes == {MinBitsize, MinBitsize + 1, WordBits}

\* Rand64() outputs exercised (64-bit values; Mod's parameter keeps the low word)
Rand64Values == {1, WordMod - 2, WordMod * WordMod - 1}

\* the Rand64() outputs exercised where a share is split off (a subset, to keep
\* the seven coins of one multiplication enumerable)
ShareCoins == {WordMod - 2, WordMod * WordMod - 1}

\* what a party passes for the share it does not hold
Placeholders == {0, WordMod - 1}

(***************************************************************************)
(* SpecShare: the dealer shares one value, both parties reconstruct it     *)
(***************************************************************************)
InitShare ==
    \E o \in {"Reconst", "BoolReconst"} :
      \E k \in (IF o = "Reconst" THEN Bitsizes ELSE {0}) :
        \E v \in (IF o = "Reconst" THEN 0 .. (2 ^ k - 1) ELSE {0, 1}) :
          InitParties(o, k, WholeBuffers, "deal",
                      [p \in Parties |-> NoArgs],
                      Dealt(v, 0, NoTriplet, <<0, 0>>, <<0, 0>>, <<NoTriplet, NoTriplet>>))

ShareArgs(sh, ph) ==
    [p \in Parties |->
        IF p = 0 THEN Args(<<sh[1]>>, <<ph[1]>>, 0, 0, NoTriplet)
                 ELSE Args(<<ph[2]>>, <<sh[2]>>, 0, 0, NoTriplet)]

\* Share(x) by the dealer; each party receives its share
DealShare ==
    /\ \A p \in Parties : pc[p] = "deal"
    /\ \E ph \in Placeholders \X Placeholders :
         \/ /\ op = "Reconst"
            /\ \E r \in Rand64Values :
                 LET sh == AdditiveShare(bitsize, clear.x, r)
                 IN  /\ args' = ShareArgs(sh, ph)
                     /\ clear' = [clear EXCEPT !.xs = sh]
         \/ /\ op = "BoolReconst"
            /\ \E r \in BOOLEAN :
                 LET sh == BooleanShare(clear.x, r)
                 IN  /\ args' = ShareArgs(sh, ph)
                     /\ clear' = [clear EXCEPT !.xs = sh]
    /\ pc' = [p \in Parties |-> "call"]
    /\ UNCHANGED <<bitsize, op, env, buf, tot, chan, wire, rcvd, ret, total_bytes_sent, log,
                   party_vars, engine_vars>>

NextShare == DealShare \/ \E p \in Parties : Step(p)

SpecShare == InitShare /\ [][NextShare]_vars

(***************************************************************************)
(* SpecMult: the dealer generates and shares one Beaver triple and shares  *)
(* two operands; both parties run Mult, And or Or on their shares          *)
(***************************************************************************)
\* clear operands exercised at bit width k
Operands(k) == {0, 2 ^ (k - 1), 2 ^ k - 1}

InitMult ==
    \E o \in {"Mult", "And", "Or"} :
      \E k \in (IF o = "Mult" THEN Bitsizes ELSE {0}) :
        \E u, v \in (IF o = "Mult" THEN Operands(k) ELSE {0, 1}) :
          InitParties(o, k, WholeBuffers, "deal",
                      [p \in Parties |-> NoArgs],
                      Dealt(u, v, NoTriplet, <<0, 0>>, <<0, 0>>, <<NoTriplet, NoTriplet>>))

MultArgs(xs, ys, ts) ==
    [p \in Parties |-> Args(<<>>, <<>>, xs[p + 1], ys[p + 1], ts[p + 1])]

\* GenerateBeaverTriples(1), ShareBeaverTriples, Share(x), Share(y) by the dealer
DealMult ==
    /\ \A p \in Parties : pc[p] = "deal"
    /\ \/ /\ op = "Mult"
          /\ \E ra, rb \in Rand64Values, r1, r2, r3, ru, rv \in ShareCoins :
               LET t  == AdditiveGenerateBeaverTriple(bitsize, ra, rb)
                   ts == AdditiveShareBeaverTriple(bitsize, t, r1, r2, r3)
                   xs == AdditiveShare(bitsize, clear.x, ru)
                   ys == AdditiveShare(bitsize, clear.y, rv)
               IN  /\ args' = MultArgs(xs, ys, ts)
                   /\ clear' = Dealt(clear.x, clear.y, t, xs, ys, ts)
       \/ /\ op \in {"And", "Or"}
          /\ \E ra, rb, r1, r2, r3, ru, rv \in BOOLEAN :
               LET t  == BooleanGenerateBeaverTriple(ra, rb)
                   ts == BooleanShareBeaverTriple(t, r1, r2, r3)
                   xs == BooleanShare(clear.x, ru)
                   ys == BooleanShare(clear.y, rv)
               IN  /\ args' = MultArgs(xs, ys, ts)
                   /\ clear' = Dealt(clear.x, clear.y, t, xs, ys, ts)
    /\ pc' = [p \in Parties |-> "call"]
    /\ UNCHANGED <<bitsize, op, env, buf, tot, chan, wire, rcvd, ret, total_bytes_sent, log,
                   party_vars, engine_vars>>

NextMult == DealMult \/ \E p \in Parties : Step(p)

SpecMult == InitMult /\ [][NextMult]_vars

(***************************************************************************)
(* Properties of the engines                                               *)
(***************************************************************************)
AllDone == \A p \in Parties : pc[p] = "done"

\* C1: arithmetic share round-trip.  When the dealer has split v with Share and
\* both parties have run Reconst on the two shares over a socket layer that
\* transfers whole buffers, the value returned to each party is v.
C1_ShareReconstRoundTrip ==
    \A p \in Parties : (op = "Reconst" /\ pc[p] = "done") => ret[p] = clear.x

\* C1 happens: a width below the word, a share larger than the secret (x - x_0
\* wrapped), both parties returned.
C1_Witness ==
    /\ op = "Reconst" /\ AllDone
    /\ bitsize < WordBits
    /\ clear.x > 0 /\ clear.x < clear.xs[1]
    /\ ret[0] = clear.x /\ ret[1] = clear.x

ValidAdditiveTripleShare(k, ts) ==
    Mod(U32(Mod(U32(ts[1].a + ts[2].a), k) * Mod(U32(ts[1].b + ts[2].b), k)), k)
        = Mod(U32(ts[1].c + ts[2].c), k)

\* C2: Beaver multiplication.  With operand shares summing to u and v and a triple
\* share with (a0+a1)(b0+b1) = c0+c1 mod 2^k, once both parties have run Mult the
\* two results sum to u*v mod 2^k.
C2_MultCorrect ==
    (/\ op = "Mult" /\ AllDone
     /\ ValidAdditiveTripleShare(bitsize, clear.bts)
     /\ (clear.xs[1] + clear.xs[2]) % (2 ^ bitsize) = clear.x
     /\ (clear.ys[1] + clear.ys[2]) % (2 ^ bitsize) = clear.y)
    => (ret[0] + ret[1]) % (2 ^ bitsize) = (clear.x * clear.y) % (2 ^ bitsize)

\* C2 happens: the product exceeds 2^k below the full word, with a non-zero d*e term.
C2_Witness ==
    /\ op = "Mult" /\ AllDone
    /\ bitsize < WordBits
    /\ clear.x * clear.y >= 2 ^ bitsize
    /\ (clear.x - clear.bt.a) % 2 # 0 /\ (clear.y - clear.bt.b) % 2 # 0
    /\ (ret[0] + ret[1]) % (2 ^ bitsize) = (clear.x * clear.y) % (2 ^ bitsize)

\* C3: dealer triple validity.  After GenerateBeaverTriples and ShareBeaverTriples the
\* two triple shares recombine component-wise to the clear triple (sum mod 2^k, resp.
\* XOR), and the recombined c is the product (resp. AND) of the recombined a and b.
C3_TripleSharesValid ==
    (pc[0] # "deal")
    => LET t == clear.bt
           t0 == clear.bts[1]
           t1 == clear.bts[2]
           m == 2 ^ bitsize
       IN  IF op = "Mult"
           THEN /\ (t0.a + t1.a) % m = t.a
                /\ (t0.b + t1.b) % m = t.b
                /\ (t0.c + t1.c) % m = t.c
                /\ (t0.c + t1.c) % m = (((t0.a + t1.a) % m) * ((t0.b + t1.b) % m)) % m
           ELSE /\ (t0.a + t1.a) % 2 = t.a
                /\ (t0.b + t1.b) % 2 = t.b
                /\ (t0.c + t1.c) % 2 = t.c
                /\ (t0.c + t1.c) % 2 = ((t0.a + t1.a) % 2) * ((t0.b + t1.b) % 2)
                /\ \A q \in {t0, t1} : q.a \in {0, 1} /\ q.b \in {0, 1} /\ q.c \in {0, 1}

\* C3 happens: an arithmetic triple with a non-zero c whose c shares wrap around 2^k.
C3_Witness ==
    /\ op = "Mult" /\ pc[0] = "call"
    /\ clear.bt.c # 0
    /\ clear.bts[1].c + clear.bts[2].c >= 2 ^ bitsize
    /\ clear.bt.c = (clear.bt.a * clear.bt.b) % (2 ^ bitsize)

C5_AndCorrect ==
    (op = "And" /\ AllDone)
    => LET d == (clear.x + clear.bt.a) % 2
           e == (clear.y + clear.bt.b) % 2
           t0 == clear.bts[1]
           t1 == clear.bts[2]
       IN  /\ (ret[0] + ret[1]) % 2 = clear.x * clear.y
           /\ ret[1] = (e * t1.a + d * t1.b + t1.c) % 2
           /\ ret[0] = (e * t0.a + d * t0.b + t0.c + d * e) % 2

\* C5 happens: scenario S5 of the specification (x = 1, y = 0, triple (1,1,1)).
C5_Witness ==
    /\ op = "And" /\ AllDone
    /\ clear.x = 1 /\ clear.y = 0
    /\ clear.xs = <<0, 1>> /\ clear.ys = <<1, 1>>
    /\ clear.bts = <<Triplet(0, 1, 1), Triplet(1, 0, 0)>>
    /\ (ret[0] + ret[1]) % 2 = 0

\* C6: boolean OR.  For all bits x, y, every XOR-sharing and every dealt triple share,
\* once party 0 has run Or (flipping its operand shares and its result) and party 1 has
\* run Or (a plain And), z0 xor z1 = x or y.
C6_OrCorrect ==
    (op = "Or" /\ AllDone)
    => (ret[0] + ret[1]) % 2 = (IF clear.x = 1 \/ clear.y = 1 THEN 1 ELSE 0)

\* C6 happens: x = 0, y = 1 held as shares (1,1) and (1,0), reconstructing to 1.
C6_Witness ==
    /\ op = "Or" /\ AllDone
    /\ clear.x = 0 /\ clear.y = 1
    /\ clear.xs = <<1, 1>> /\ clear.ys = <<1, 0>>
    /\ (ret[0] + ret[1]) % 2 = 1

(***************************************************************************)
(* SpecXfer: both parties call one Party::SendRecv overload with buffers   *)
(* of equal size, over a socket layer that may return short counts and     *)
(* holds at most env.cap unread bytes per direction                        *)
(***************************************************************************)
\* first words of the payloads exercised; the following words count up from them
PayloadWords == {3, WordMod - 2}

Payload(w, n) == [i \in 1 .. n |-> U32(w + i - 1)]

\* number of words of the buffers of operation o
Lengths(o) ==
    CASE o = "SendRecvValue"  -> {1}
      [] o = "SendRecvArray2" -> {2}
      [] o = "SendRecvArray4" -> {4}
      [] o = "SendRecvVector" -> 1 .. MaxVecLen

XferEnvs == {WholeBuffers} \cup {[short |-> TRUE, cap |-> c] : c \in 1 .. SockBuf}

\* party 0 passes (own, slot), party 1 passes (slot, own)
XferArgs(w0, w1, n) ==
    [p \in Parties |->
        IF p = 0 THEN Args(Payload(w0, n), Zeros(n), 0, 0, NoTriplet)
                 ELSE Args(Zeros(n), Payload(w1, n), 0, 0, NoTriplet)]

InitXfer ==
    \E o \in RawOps, e \in XferEnvs, w0 \in PayloadWords :
      \E n \in Lengths(o), w1 \in PayloadWords \ {w0} :
        InitParties(o, 0, e, "call", XferArgs(w0, w1, n),
                    Dealt(0, 0, NoTriplet, <<0, 0>>, <<0, 0>>, <<NoTriplet, NoTriplet>>))

NextXfer == \E p \in Parties : Step(p)

SpecXfer == InitXfer /\ [][NextXfer]_vars

\* the two party processes are scheduled fairly
SpecXferFair == SpecXfer /\ \A p \in Parties : WF_vars(Step(p))

(***************************************************************************)
(* SpecDesync: both parties call the vector Party::SendRecv, each with a   *)
(* vector and a slot of its own choice of lengths                          *)
(***************************************************************************)
\* whole buffers, or short counts over a socket buffer of one byte or of one word
DesyncEnvs ==
    {WholeBuffers, [short |-> TRUE, cap |-> 1], [short |-> TRUE, cap |-> BytesPerWord]}

\* party 0 passes (own of n0 words, slot of m0 words), party 1 (slot of m1, own of n1)
DesyncArgs(w0, w1, n0, m0, n1, m1) ==
    [p \in Parties |->
        IF p = 0 THEN Args(Payload(w0, n0), Zeros(m0), 0, 0, NoTriplet)
                 ELSE Args(Zeros(m1), Payload(w1, n1), 0, 0, NoTriplet)]

InitDesync ==
    \E e \in DesyncEnvs, w0 \in PayloadWords :
      \E n0, m0, n1, m1 \in 1 .. MaxVecLen, w1 \in PayloadWords \ {w0} :
        InitParties("SendRecvVector", 0, e, "call", DesyncArgs(w0, w1, n0, m0, n1, m1),
                    Dealt(0, 0, NoTriplet, <<0, 0>>, <<0, 0>>, <<NoTriplet, NoTriplet>>))

NextDesync == \E p \in Parties : Step(p)

SpecDesync == InitDesync /\ [][NextDesync]_vars

(***************************************************************************)
(* SpecSession: two processes, each with a freshly constructed Party, call *)
(* StartCommunication, the scalar SendRecv, ClearTotalBytesSent and        *)
(* EndCommunication in any order and are destroyed; a socket call on a     *)
(* closed descriptor or towards a closed peer fails                        *)
(***************************************************************************)
\* contents of the members no constructor sets, as exercised: the descriptors
\* (p0_.server_fd_, p0_.client_fd_, p1_.client_fd_) and total_bytes_sent_
Indeterminate == {[fd |-> NoDescriptor, count |-> WordMod - 1], [fd |-> 0, count |-> 1]}

SessionEnvs == {WholeBuffers}

\* the value party p submits in its r-th round
RoundWord(p, r) == U32((IF p = 0 THEN 3 ELSE WordMod - 2) + r)

\* both Party objects constructed, nothing started, over one of the socket layers envs
InitFresh(envs) ==
    \E e \in envs, g \in [Parties -> Indeterminate] :
      /\ op = "SendRecvValue"
      /\ bitsize = 0
      /\ env = e
      /\ pc = [p \in Parties |-> "idle"]
      /\ args = [p \in Parties |-> NoArgs]
      /\ clear = Dealt(0, 0, NoTriplet, <<0, 0>>, <<0, 0>>, <<NoTriplet, NoTriplet>>)
      /\ buf = [p \in Parties |-> <<<<>>, <<>>>>]
      /\ tot = [p \in Parties |-> 0]
      /\ chan = [p \in Parties |-> <<>>]
      /\ wire = [p \in Parties |-> <<>>]
      /\ rcvd = [p \in Parties |-> <<>>]
      /\ ret = [p \in Parties |-> 0]
      /\ total_bytes_sent = [p \in Parties |-> g[p].count]
      /\ log = [p \in Parties |-> <<>>]
      /\ is_started = [p \in Parties |-> FALSE]
      /\ fds = [p \in Parties |-> UnsetFds(g[p].fd)]
      /\ open = [p \in Parties |-> FreshTable]
      /\ exit_code = [p \in Parties |-> 0]
      /\ round = [p \in Parties |-> 0]
      /\ sends = [p \in Parties |-> 0]
      /\ fault = [p \in Parties |-> NoFault]
      /\ released = [p \in Parties |-> NothingReleased]
      /\ engine = NoEngine
      /\ oob = [p \in Parties |-> FALSE]
      /\ HostIdle

InitSession == InitFresh(SessionEnvs)

\* the caller passes its next value and a zeroed slot to Party::SendRecv
InvokeSendRecv(p) ==
    /\ Outside(p)
    /\ round[p] < MaxRounds
    /\ round' = [round EXCEPT ![p] = @ + 1]
    /\ args' = [args EXCEPT ![p] =
                   IF p = 0 THEN Args(<<RoundWord(p, round[p])>>, <<0>>, 0, 0, NoTriplet)
                            ELSE Args(<<0>>, <<RoundWord(p, round[p])>>, 0, 0, NoTriplet)]
    /\ pc' = [pc EXCEPT ![p] = "call"]
    /\ wire' = [wire EXCEPT ![p] = <<>>]
    /\ rcvd' = [rcvd EXCEPT ![p] = <<>>]
    /\ log' = [log EXCEPT ![p] = <<>>]
    /\ UNCHANGED <<bitsize, op, env, buf, tot, chan, ret, total_bytes_sent, clear,
                   is_started, fds, open, exit_code, sends, fault, released, engine_vars>>

SessionStep(p) ==
    \/ StartCommunication(p)
    \/ Accept(p)
    \/ (round[p] < SessionRounds /\ InvokeSendRecv(p))
    \/ Step(p)
    \/ SendFails(p)
    \/ RecvFails(p)
    \/ SendKilled(p)
    \/ ClearTotalBytesSent(p)
    \/ EndCommunication(p)
    \/ Destroy(p)

NextSession == \E p \in Parties : SessionStep(p)

SpecSession == InitSession /\ [][NextSession]_vars

(***************************************************************************)
(* SpecRounds: the same two processes when neither closes its sockets:     *)
(* StartCommunication, up to MaxRounds scalar SendRecv calls on a started  *)
(* party, and ClearTotalBytesSent, over any of the socket layers           *)
(***************************************************************************)
RoundsEnvs == {WholeBuffers, [short |-> TRUE, cap |-> 1]}

InitRounds == InitFresh(RoundsEnvs)

RoundsStep(p) ==
    \/ StartCommunication(p)
    \/ Accept(p)
    \/ (is_started[p] /\ InvokeSendRecv(p))
    \/ Step(p)
    \/ ClearTotalBytesSent(p)

NextRounds == \E p \in Parties : RoundsStep(p)

SpecRounds == InitRounds /\ [][NextRounds]_vars

(***************************************************************************)
(* SpecCtor: the arithmetic engine is constructed with a requested width   *)
(* (or by the default constructor); if that succeeds the dealer shares a   *)
(* value with it and both parties reconstruct                              *)
(***************************************************************************)
\* widths requested of the constructor: from 0 to one past the word
CtorBitsizes == 0 .. (WordBits + 1)

InitCtor ==
    \E v \in 0 .. (2 ^ MinBitsize - 1) :
      InitParties("Reconst", 0, WholeBuffers, "new",
                  [p \in Parties |-> NoArgs],
                  Dealt(v, 0, NoTriplet, <<0, 0>>, <<0, 0>>, <<NoTriplet, NoTriplet>>))

\* AdditiveSecretSharing::AdditiveSecretSharing() / AdditiveSecretSharing(k)
Construct ==
    /\ engine.status = "new"
    /\ \E d \in BOOLEAN, k \in CtorBitsizes :
         /\ d => k = 0
         /\ engine' = Engine(d, k)
         /\ IF Engine(d, k).status = "ok"
            THEN /\ bitsize' = IF d THEN DefaultBitsize ELSE k
                 /\ pc' = [p \in Parties |-> "deal"]
            ELSE UNCHANGED <<bitsize, pc>>
    /\ UNCHANGED <<op, env, args, buf, tot, chan, wire, rcvd, ret, total_bytes_sent, log,
                   clear, party_vars, oob, host_vars>>

NextCtor == Construct \/ DealShare \/ \E p \in Parties : Step(p)

SpecCtor == InitCtor /\ [][NextCtor]_vars

(***************************************************************************)
(* SpecBatch: both parties run vector Mult, vector And, vector Or or Mult2 *)
(* on vectors of any lengths up to MaxVecLen, over whole-buffer transport  *)
(***************************************************************************)
\* one position of the operand vectors of a party: x[i], y[i], bt[i]
Lane(x, y, t) == [x |-> x, y |-> y, bt |-> t]

Lanes(o, k) ==
    IF o \in {"MultVec", "Mult2"}
    THEN {Lane(2 ^ k - 1, 2 ^ (k - 1), Triplet(2 ^ (k - 1), 1, 2 ^ k - 1)),
          Lane(1, 2 ^ k - 1, Triplet(2, 2 ^ k - 1, 1))}
    ELSE {Lane(1, 0, Triplet(0, 1, 1)), Lane(0, 1, Triplet(1, 0, 0))}

\* the sizes of x_vec, y_vec, bt_vec and z_vec of one call: all equal, or one of the
\* inputs shorter or longer than the others
Shapes(o) ==
    IF o \in PairOps THEN {[x |-> 2, y |-> 2, bt |-> 2, z |-> 2]}
    ELSE {s \in [x : 0 .. MaxVecLen, y : 0 .. MaxVecLen, bt : 0 .. MaxVecLen,
                 z : 1 .. MaxVecLen] :
            Cardinality({f \in {"x", "y", "bt"} : s[f] # s.z}) <= 1}

BatchArgs(s, lanes, junk) ==
    VecArgs([i \in 1 .. s.bt |-> lanes[i].bt], [i \in 1 .. s.x |-> lanes[i].x],
            [i \in 1 .. s.y |-> lanes[i].y], s.z, junk)

InitBatch ==
    \E o \in BatchOps \cup PairOps :
      \E k \in (IF o \in {"MultVec", "Mult2"} THEN Bitsizes ELSE {0}), s \in Shapes(o) :
        \E l \in [Parties -> [1 .. MaxVecLen -> Lanes(o, k)]],
           junk \in (IF s.x < s.z \/ s.y < s.z \/ s.bt < s.z THEN Placeholders ELSE {0}) :
          InitParties(o, k, WholeBuffers, "call",
                      [p \in Parties |-> BatchArgs(s, l[p], junk)],
                      Dealt(0, 0, NoTriplet, <<0, 0>>, <<0, 0>>, <<NoTriplet, NoTriplet>>))

\* a read behind the end of a vector hits unmapped memory: the process is killed
Segfault(p) ==
    /\ pc[p] = "call"
    /\ op \in BatchOps /\ ReadsOutOfRange(args[p])
    /\ pc' = [pc EXCEPT ![p] = "killed"]
    /\ oob' = [oob EXCEPT ![p] = TRUE]
    /\ UNCHANGED <<bitsize, op, env, args, buf, tot, chan, wire, rcvd, ret,
                   total_bytes_sent, log, clear, party_vars, engine, host_vars>>

NextBatch == \E p \in Parties : Step(p) \/ Segfault(p)

SpecBatch == InitBatch /\ [][NextBatch]_vars

(***************************************************************************)
(* SpecReconst: each party holds one share of an arbitrary pair and calls  *)
(* Reconst with a placeholder of its choice for the share it does not hold *)
(***************************************************************************)
\* shares exercised at bit width k (any uint32_t may be passed, also above 2^k)
PairShares(o, k) == IF o = "Reconst" THEN {0, 1, 2 ^ k - 1, WordMod - 1} ELSE {0, 1}

InitReconst ==
    \E o \in {"Reconst", "BoolReconst"} :
      \E k \in (IF o = "Reconst" THEN Bitsizes ELSE {0}) :
        \E sh \in PairShares(o, k) \X PairShares(o, k), ph \in Placeholders \X Placeholders :
          InitParties(o, k, WholeBuffers, "call", ShareArgs(sh, ph),
                      Dealt(0, 0, NoTriplet, sh, <<0, 0>>, <<NoTriplet, NoTriplet>>))

NextReconst == \E p \in Parties : Step(p)

SpecReconst == InitReconst /\ [][NextReconst]_vars

(***************************************************************************)
(* SpecTriples: each party holds a pool of triple shares and calls Mult,   *)
(* Mult2 or the vector Mult several times, passing triples of its choice   *)
(***************************************************************************)
\* the i-th triple share of party p's pool at width k
PoolTriple(p, k, i) == Triplet(Mod(i + p, k), Mod(2 * i + 1, k), Mod(i + 3 * p, k))

\* the number of triples each form of the multiplication takes
TripleCounts(o) ==
    CASE o = "Mult"    -> {1}
      [] o = "Mult2"   -> {2}
      [] o = "MultVec" -> 1 .. MaxVecLen

\* the arguments of a call on the triples with the pool indices idx
TripleArgs(o, p, k, idx) ==
    IF o = "Mult"
    THEN Args(<<>>, <<>>, 1, 2 ^ k - 1, PoolTriple(p, k, idx[1]))
    ELSE VecArgs([n \in 1 .. Len(idx) |-> PoolTriple(p, k, idx[n])],
                 [n \in 1 .. Len(idx) |-> n], [n \in 1 .. Len(idx) |-> 2 ^ k - 1],
                 Len(idx), 0)

Occurrences(idx, i) == Cardinality({n \in 1 .. Len(idx) : idx[n] = i})

InitTriples ==
    \E o \in {"Mult", "Mult2", "MultVec"} :
      InitParties(o, MinBitsize, WholeBuffers, "idle", [p \in Parties |-> NoArgs],
                  Dealt(0, 0, NoTriplet, <<0, 0>>, <<0, 0>>, <<NoTriplet, NoTriplet>>))

\* the caller passes triples of its pool to Mult / Mult2 / the vector Mult: the
\* engine takes them by const reference and keeps no record of them
InvokeMult(p) ==
    /\ Outside(p)
    /\ round[p] < SessionRounds
    /\ \E n \in TripleCounts(op) :
         \E idx \in [1 .. n -> PoolIndex] :
           /\ args' = [args EXCEPT ![p] = TripleArgs(op, p, bitsize, idx)]
           /\ used' = [used EXCEPT ![p] = [i \in PoolIndex |-> @[i] + Occurrences(idx, i)]]
    /\ round' = [round EXCEPT ![p] = @ + 1]
    /\ pc' = [pc EXCEPT ![p] = "call"]
    /\ wire' = [wire EXCEPT ![p] = <<>>]
    /\ rcvd' = [rcvd EXCEPT ![p] = <<>>]
    /\ log' = [log EXCEPT ![p] = <<>>]
    /\ UNCHANGED <<bitsize, op, env, buf, tot, chan, ret, total_bytes_sent, clear,
                   is_started, fds, open, exit_code, sends, fault, released,
                   engine, oob, setup, store, driver>>

NextTriples == \E p \in Parties : InvokeMult(p) \/ Step(p)

SpecTriples == InitTriples /\ [][NextTriples]_vars

(***************************************************************************)
(* SpecOps: both parties run the same engine operation several times, one  *)
(* call after the other, over any of the socket layers                     *)
(***************************************************************************)
EngineOps == {"Reconst", "BoolReconst", "Mult", "Mult2", "MultVec", "And", "AndVec", "Or",
              "OrVec"}

OpsEnvs == {WholeBuffers, [short |-> TRUE, cap |-> 1]}

\* the number of elements of the vectors of a party's call number r (from 0): both
\* parties pass vectors of the same sizes, growing from call to call
RoundLen(o, r) == IF o \in PairOps THEN 2 ELSE 1 + (r % MaxVecLen)

\* the arguments party p passes in its call number r
OpArgs(o, p, k, r) ==
    CASE o \in {"Reconst", "BoolReconst"} ->
           IF p = 0 THEN Args(<<1>>, <<0>>, 0, 0, NoTriplet)
                    ELSE Args(<<0>>, <<r % 2>>, 0, 0, NoTriplet)
      [] o = "Mult" -> Args(<<>>, <<>>, 1, 2 ^ k - 1, PoolTriple(p, k, r))
      [] o \in {"And", "Or"} -> Args(<<>>, <<>>, 1, p, Triplet(p, 1, r % 2))
      [] o \in {"MultVec", "Mult2"} ->
           VecArgs([n \in 1 .. RoundLen(o, r) |-> PoolTriple(p, k, n)],
                   [n \in 1 .. RoundLen(o, r) |-> n % (2 ^ k)],
                   [n \in 1 .. RoundLen(o, r) |-> 2 ^ k - 1], RoundLen(o, r), 0)
      [] OTHER ->
           VecArgs([n \in 1 .. RoundLen(o, r) |-> Triplet(p, 1, n % 2)],
                   [n \in 1 .. RoundLen(o, r) |-> 1],
                   [n \in 1 .. RoundLen(o, r) |-> p], RoundLen(o, r), 0)

InitOps ==
    \E o \in EngineOps, e \in OpsEnvs :
      InitParties(o, IF o \in {"Reconst", "Mult", "Mult2", "MultVec"} THEN MinBitsize ELSE 0,
                  e, "idle", [p \in Parties |-> NoArgs],
                  Dealt(0, 0, NoTriplet, <<0, 0>>, <<0, 0>>, <<NoTriplet, NoTriplet>>))

\* the caller calls the operation once more
InvokeOp(p) ==
    /\ Outside(p)
    /\ round[p] < SessionRounds
    /\ args' = [args EXCEPT ![p] = OpArgs(op, p, bitsize, round[p])]
    /\ round' = [round EXCEPT ![p] = @ + 1]
    /\ pc' = [pc EXCEPT ![p] = "call"]
    /\ wire' = [wire EXCEPT ![p] = <<>>]
    /\ rcvd' = [rcvd EXCEPT ![p] = <<>>]
    /\ log' = [log EXCEPT ![p] = <<>>]
    /\ UNCHANGED <<bitsize, op, env, buf, tot, chan, ret, total_bytes_sent, clear,
                   is_started, fds, open, exit_code, sends, fault, released,
                   engine_vars>>

NextOps == \E p \in Parties : InvokeOp(p) \/ Step(p)

SpecOps == InitOps /\ [][NextOps]_vars

(***************************************************************************)
(* SpecCanon: the arithmetic engine on arbitrary words: the dealer's       *)
(* Share, GenerateBeaverTriples and ShareBeaverTriples, and the parties'   *)
(* Reconst, Mult, Mult2 and vector Mult on operands and triple shares that *)
(* need not be below 2^k                                                   *)
(***************************************************************************)
DealerOps == {"Share", "Generate", "ShareTriples"}

\* words exercised as inputs: a small one and two at the top of the word
RawWords == {1, WordMod - 2, WordMod - 1}

\* operand and triple shares as a caller may pass them
RawLanes ==
    {Lane(WordMod - 1, WordMod - 2, Triplet(WordMod - 1, WordMod - 1, WordMod - 2)),
     Lane(1, WordMod - 1, Triplet(WordMod - 2, 1, WordMod - 1)),
     Lane(WordMod - 2, 1, Triplet(1, 1, 1))}

\* the arguments of party p's call of operation o on the lane l
RawArgs(o, p, l) ==
    CASE o = "Reconst" -> IF p = 0 THEN Args(<<l.x>>, <<l.y>>, 0, 0, NoTriplet)
                                   ELSE Args(<<l.y>>, <<l.x>>, 0, 0, NoTriplet)
      [] o = "Mult"    -> Args(<<>>, <<>>, l.x, l.y, l.bt)
      [] o = "Mult2"   -> VecArgs(<<l.bt, Triplet(l.bt.c, l.bt.a, l.bt.b)>>, <<l.x, l.y>>,
                                  <<l.y, l.x>>, 2, 0)
      [] OTHER         -> VecArgs([i \in 1 .. MaxVecLen |-> l.bt],
                                  [i \in 1 .. MaxVecLen |-> U32(l.x + i)],
                                  [i \in 1 .. MaxVecLen |-> l.y], MaxVecLen, 0)

InitCanon ==
    \E k \in Bitsizes :
      \/ \E o \in DealerOps, x \in RawWords, l \in RawLanes :
           InitParties(o, k, WholeBuffers, "deal", [p \in Parties |-> NoArgs],
                       Dealt(x, 0, l.bt, <<0, 0>>, <<0, 0>>, <<NoTriplet, NoTriplet>>))
      \/ \E o \in {"Reconst", "Mult", "Mult2", "MultVec"}, l \in [Parties -> RawLanes] :
           InitParties(o, k, WholeBuffers, "call", [p \in Parties |-> RawArgs(o, p, l[p])],
                       Dealt(0, 0, NoTriplet, <<0, 0>>, <<0, 0>>, <<NoTriplet, NoTriplet>>))

\* the dealer's call: Share(x), GenerateBeaverTriples or ShareBeaverTriples(bt)
DealCanon ==
    /\ \A p \in Parties : pc[p] = "deal"
    /\ op \in DealerOps
    /\ \/ /\ op = "Share"
          /\ \E r \in Rand64Values :
               clear' = [clear EXCEPT !.xs = AdditiveShare(bitsize, clear.x, r)]
       \/ /\ op = "Generate"
          /\ \E ra, rb \in Rand64Values :
               clear' = [clear EXCEPT !.bt = AdditiveGenerateBeaverTriple(bitsize, ra, rb)]
       \/ /\ op = "ShareTriples"
          /\ \E ra, rb, rc \in ShareCoins :
               clear' = [clear EXCEPT
                            !.bts = AdditiveShareBeaverTriple(bitsize, clear.bt, ra, rb, rc)]
    /\ pc' = [p \in Parties |-> "idle"]
    /\ UNCHANGED <<bitsize, op, env, args, buf, tot, chan, wire, rcvd, ret, total_bytes_sent,
                   log, party_vars, engine_vars>>

NextCanon == DealCanon \/ \E p \in Parties : Step(p)

SpecCanon == InitCanon /\ [][NextCanon]_vars

(***************************************************************************)
(* SpecBits: the boolean engine on bits: the dealer's Share,               *)
(* GenerateBeaverTriples and ShareBeaverTriples, and sequences of And, Or  *)
(* and Reconst in which each party's result is its operand of the next call*)
(***************************************************************************)
BitDealerOps == {"BoolShare", "BoolGenerate", "BoolShareTriples"}

BitOps == {"BoolReconst", "And", "Or"}

Bits == {0, 1}

BitTriplets == {Triplet(a, b, c) : a \in Bits, b \in Bits, c \in Bits}

InitBits ==
    \/ \E o \in BitDealerOps, x \in Bits, t \in BitTriplets :
         InitParties(o, 0, WholeBuffers, "deal", [p \in Parties |-> NoArgs],
                     Dealt(x, 0, t, <<0, 0>>, <<0, 0>>, <<NoTriplet, NoTriplet>>))
    \/ \E o \in BitOps :
         InitParties(o, 0, WholeBuffers, "idle", [p \in Parties |-> NoArgs],
                     Dealt(0, 0, NoTriplet, <<0, 0>>, <<0, 0>>, <<NoTriplet, NoTriplet>>))

\* the dealer's call: Share(x), GenerateBeaverTriples or ShareBeaverTriples(bt)
DealBits ==
    /\ \A p \in Parties : pc[p] = "deal"
    /\ op \in BitDealerOps
    /\ \/ /\ op = "BoolShare"
          /\ \E r \in BOOLEAN : clear' = [clear EXCEPT !.xs = BooleanShare(clear.x, r)]
       \/ /\ op = "BoolGenerate"
          /\ \E ra, rb \in BOOLEAN :
               clear' = [clear EXCEPT !.bt = BooleanGenerateBeaverTriple(ra, rb)]
       \/ /\ op = "BoolShareTriples"
          /\ \E ra, rb, rc \in BOOLEAN :
               clear' = [clear EXCEPT !.bts = BooleanShareBeaverTriple(clear.bt, ra, rb, rc)]
    /\ pc' = [p \in Parties |-> "destroyed"]
    /\ UNCHANGED <<bitsize, op, env, args, buf, tot, chan, wire, rcvd, ret, total_bytes_sent,
                   log, party_vars, engine_vars>>

\* party p calls the current operation on the value its last call returned (0 before
\* the first), a share y_b and a triple share of its choice; in Reconst the slot of the
\* share it does not hold is a word of its choice
InvokeBit(p) ==
    /\ op \in BitOps
    /\ Outside(p)
    /\ round[p] < SessionRounds
    /\ round[p] <= round[Peer(p)]
    /\ \E y \in Bits, t \in BitTriplets :
         args' = [args EXCEPT ![p] =
                     IF op = "BoolReconst"
                     THEN IF p = 0 THEN Args(<<ret[p]>>, <<WordMod - 1>>, 0, 0, NoTriplet)
                                   ELSE Args(<<WordMod - 1>>, <<ret[p]>>, 0, 0, NoTriplet)
                     ELSE Args(<<>>, <<>>, ret[p], y, t)]
    /\ round' = [round EXCEPT ![p] = @ + 1]
    /\ pc' = [pc EXCEPT ![p] = "call"]
    /\ wire' = [wire EXCEPT ![p] = <<>>]
    /\ rcvd' = [rcvd EXCEPT ![p] = <<>>]
    /\ log' = [log EXCEPT ![p] = <<>>]
    /\ UNCHANGED <<bitsize, op, env, buf, tot, chan, ret, total_bytes_sent, clear,
                   is_started, fds, open, exit_code, sends, fault, released,
                   engine_vars>>

\* between two calls the program goes on to another operation
NextOperation ==
    /\ op \in BitOps
    /\ \A p \in Parties : Outside(p)
    /\ round[0] = round[1]
    /\ \E o \in BitOps \ {op} : op' = o
    /\ UNCHANGED <<bitsize, env, pc, args, buf, tot, chan, wire, rcvd, ret, total_bytes_sent,
                   log, clear, party_vars, engine_vars>>

NextBits == DealBits \/ NextOperation \/ \E p \in Parties : InvokeBit(p) \/ Step(p)

SpecBits == InitBits /\ [][NextBits]_vars

(***************************************************************************)
(* SpecMod: utils::Mod applied to a word and to the wrapped sum,           *)
(* difference and product of two words, at every width from 2 to the word  *)
(***************************************************************************)
AllBitsizes == MinBitsize .. WordBits

\* second operands exercised: the ends of the word and the values next to them
EdgeWords == {0, 1, 2, WordMod - 2, WordMod - 1}

InitMod ==
    \E k \in AllBitsizes, w \in Word, v \in EdgeWords :
      InitParties("Mod", k, WholeBuffers, "deal", [p \in Parties |-> NoArgs],
                  Dealt(w, v, NoTriplet, <<0, 0>>, <<0, 0>>, <<NoTriplet, NoTriplet>>))

\* Mod(x, k) and Mod of x + y, x - y and x * y computed in uint32_t
Reduce ==
    /\ \A p \in Parties : pc[p] = "deal"
    /\ op = "Mod"
    /\ clear' = [clear EXCEPT
                    !.xs = <<Mod(clear.x, bitsize), Mod(U32(clear.x + clear.y), bitsize)>>,
                    !.ys = <<Mod(U32(clear.x - clear.y), bitsize),
                             Mod(U32(clear.x * clear.y), bitsize)>>]
    /\ pc' = [p \in Parties |-> "destroyed"]
    /\ UNCHANGED <<bitsize, op, env, args, buf, tot, chan, wire, rcvd, ret, total_bytes_sent,
                   log, party_vars, engine_vars>>

NextMod == Reduce

SpecMod == InitMod /\ [][NextMod]_vars

(***************************************************************************)
(* SpecMask: each party calls Mult, Mult2, the vector Mult, And or the     *)
(* vector And once, on operand and triple shares of its own                *)
(***************************************************************************)
MaskOps == {"Mult", "Mult2", "MultVec", "And", "AndVec"}

\* widths exercised: the three smallest
MaskBitsizes == MinBitsize .. Min(MinBitsize + 2, WordBits)

MaskLanes(o) == IF o \in {"And", "AndVec"} THEN Lanes(o, 0) ELSE RawLanes

MaskArgs(o, p, l) ==
    CASE o = "And"    -> Args(<<>>, <<>>, l.x, l.y, l.bt)
      [] o = "AndVec" -> VecArgs([i \in 1 .. MaxVecLen |-> l.bt],
                                 [i \in 1 .. MaxVecLen |-> (l.x + i) % 2],
                                 [i \in 1 .. MaxVecLen |-> l.y], MaxVecLen, 0)
      [] OTHER        -> RawArgs(o, p, l)

InitMask ==
    \E o \in MaskOps :
      \E k \in (IF o \in {"And", "AndVec"} THEN {0} ELSE MaskBitsizes),
         l \in [Parties -> MaskLanes(o)] :
        InitParties(o, k, WholeBuffers, "call", [p \in Parties |-> MaskArgs(o, p, l[p])],
                    Dealt(0, 0, NoTriplet, <<0, 0>>, <<0, 0>>, <<NoTriplet, NoTriplet>>))

NextMask == \E p \in Parties : Step(p)

SpecMask == InitMask /\ [][NextMask]_vars

(***************************************************************************)
(* SpecStore: a process exports triple vectors to two files with ExportBT  *)
(* and ExportBTShare and loads them back with LoadBTShare; the files may   *)
(* be missing, unopenable or malformed to begin with                       *)
(***************************************************************************)
\* file_path_p0, file_path_p1
Paths == Parties

NoFile == [kind |-> "missing", text |-> <<>>]
DeniedFile == [kind |-> "denied", text |-> <<>>]
TextFile(t) == [kind |-> "file", text |-> t]

\* FileIo::OpenFile(std::ifstream &, ...): "true if the file was successfully opened"
OpenedForReading(f) == f.kind = "file"

\* FileIo::OpenFile(std::ofstream &, ...): creates the file unless the path cannot be opened
OpenedForWriting(f) == f.kind # "denied"

\* the triple vector of length n counting up from the word w: every position differs,
\* the decimal images have one digit and more, and the largest word occurs
TripleVector(w, n) ==
    [i \in 1 .. n |-> Triplet(U32(w + i - 1), U32(WordMod - i), U32(w * i))]

TripleVectors == {TripleVector(w, n) : w \in {3, WordMod - 2}, n \in 0 .. MaxVecLen}

\* files that are not the image of a triple vector: an empty file, a count line that is
\* no number, a count of 2 before one line, a line of two fields
MalformedTexts ==
    {<<>>,
     <<"x", Newline>> \o FormatTriplet(Triplet(1, 2, 3)),
     ToDecimal(2) \o <<Newline>> \o FormatTriplet(Triplet(1, 2, 3)),
     ToDecimal(1) \o <<Newline>> \o ToDecimal(1) \o <<Comma>> \o ToDecimal(2) \o <<Newline>>}

\* what the caller's output vector holds before any load
StaleVector == <<Triplet(1, 1, 1)>>

InitStore ==
    /\ InitExchange("SendRecvValue", 0, WholeBuffers, "idle", [p \in Parties |-> NoArgs],
                    Dealt(0, 0, NoTriplet, <<0, 0>>, <<0, 0>>, <<NoTriplet, NoTriplet>>))
    /\ used = [p \in Parties |-> NothingUsed]
    /\ setup = [p \in Parties |-> NoSetup]
    /\ driver = NoDriver
    /\ \E f0 \in {NoFile, DeniedFile} \cup {TextFile(t) : t \in MalformedTexts},
          f1 \in {NoFile, DeniedFile} :
         store = [call |-> "none", path |-> 0, outcome |-> "none", exit_code |-> 0,
                  disk |-> <<f0, f1>>, bt_vec |-> StaleVector,
                  written |-> <<<<>>, <<>>>>, oob |-> FALSE]

Running(st) == st.outcome \in {"none", "returned"}

\* ShareHandler::WriteBeaverTriplesToFile(file_path, bt_vec) on the store st
WriteBeaverTriplesToFile(st, f, bt_vec) ==
    IF OpenedForWriting(st.disk[f + 1])
    THEN [st EXCEPT !.disk[f + 1] = TextFile(TriplesText(bt_vec)),
                    !.written[f + 1] = <<bt_vec>>,
                    !.outcome = "returned"]
    ELSE [st EXCEPT !.outcome = "exited", !.exit_code = EXIT_FAILURE]

\* ShareHandler::ExportBT
ExportBT(f, bt_vec) ==
    /\ Running(store)
    /\ store' = [WriteBeaverTriplesToFile(store, f, bt_vec) EXCEPT
                    !.call = "ExportBT", !.path = f, !.oob = FALSE]
    /\ UNCHANGED <<bitsize, op, env, pc, args, buf, tot, chan, wire, rcvd, ret,
                   total_bytes_sent, log, clear, party_vars, engine, oob, used, setup, driver>>

\* ShareHandler::ExportBTShare: the first vector to file_path_p0, then the second to
\* file_path_p1
ExportBTShare(bt_vec_0, bt_vec_1) ==
    /\ Running(store)
    /\ LET st == WriteBeaverTriplesToFile(store, 0, bt_vec_0)
       IN  store' = [(IF Running(st) THEN WriteBeaverTriplesToFile(st, 1, bt_vec_1) ELSE st)
                        EXCEPT !.call = "ExportBTShare", !.path = 1, !.oob = FALSE]
    /\ UNCHANGED <<bitsize, op, env, pc, args, buf, tot, chan, wire, rcvd, ret,
                   total_bytes_sent, log, clear, party_vars, engine, oob, used, setup, driver>>

\* ShareHandler::LoadBTShare -> ReadBeaverTriplesFromFile(file_path, bt_vec): nothing
\* happens if the file does not open; indexing a missing field reads junk or kills
LoadBTShare(f) ==
    /\ Running(store)
    /\ LET file == store.disk[f + 1]
           st   == [store EXCEPT !.call = "LoadBTShare", !.path = f]
       IN  IF ~OpenedForReading(file)
           THEN store' = [st EXCEPT !.outcome = "returned", !.oob = FALSE]
           ELSE IF ~FieldsMissing(file.text)
           THEN store' = [st EXCEPT !.outcome = "returned", !.oob = FALSE,
                                    !.bt_vec = ReadTriples(file.text, 0)]
           ELSE \/ \E junk \in Placeholders :
                     store' = [st EXCEPT !.outcome = "returned", !.oob = TRUE,
                                         !.bt_vec = ReadTriples(file.text, junk)]
                \/ store' = [st EXCEPT !.outcome = "killed", !.oob = TRUE]
    /\ UNCHANGED <<bitsize, op, env, pc, args, buf, tot, chan, wire, rcvd, ret,
                   total_bytes_sent, log, clear, party_vars, engine, oob, used, setup, driver>>

NextStore ==
    \/ \E f \in Paths, v \in TripleVectors : ExportBT(f, v)
    \/ \E v0, v1 \in TripleVectors : ExportBTShare(v0, v1)
    \/ \E f \in Paths : LoadBTShare(f)

SpecStore == InitStore /\ [][NextStore]_vars

(***************************************************************************)
(* SpecDriver: main(argc, argv): the getopt_long loop, the positional      *)
(* arguments, the dispatch on mode and function name                       *)
(***************************************************************************)
\* the largest int (the word's width, one bit for the sign)
IntMax == 2 ^ (WordBits - 1) - 1

RECURSIVE DecimalValue(_)
DecimalValue(cs) ==
    IF cs = <<>> THEN 0
    ELSE Len(Digits) * DecimalValue(SubSeq(cs, 1, Len(cs) - 1)) + DigitValue(cs[Len(cs)])

\* the longest prefix of decimal digits of cs
LeadingDigits(cs) ==
    LET n == CHOOSE m \in 0 .. Len(cs) :
                 /\ \A i \in 1 .. m : IsDigit(cs[i])
                 /\ m < Len(cs) => ~IsDigit(cs[m + 1])
    IN  SubSeq(cs, 1, n)

\* std::stoi(str): converts the leading digits; std::invalid_argument when there are
\* none, std::out_of_range when the value does not fit an int
StoI(cs) ==
    IF LeadingDigits(cs) = <<>> THEN [thrown |-> "invalid_argument", value |-> 0]
    ELSE IF DecimalValue(LeadingDigits(cs)) > IntMax
         THEN [thrown |-> "out_of_range", value |-> 0]
         ELSE [thrown |-> "none", value |-> DecimalValue(LeadingDigits(cs))]

EXIT_SUCCESS == 0

\* option arguments: a number, no number, a number followed by letters, a number too
\* large for an int
NumberTokens == {<<"5">>, <<"x">>, <<"5", "x">>, <<"9", "9", "9">>}

Option(o, a) == [opt |-> o, optarg |-> a]

\* what getopt_long can return for one element of the command line ("?" for an
\* option it does not know)
OptionTokens ==
    {Option(o, a) : o \in {"p", "m", "i"}, a \in NumberTokens}
        \cup {Option("n", a) : a \in {"known", "unknown"}}
        \cup {Option("h", ""), Option("?", "")}

CommandLines ==
    [opts : {<<>>} \cup {<<o>> : o \in OptionTokens}
                   \cup {<<Option("n", a), o>> : a \in {"known", "unknown"},
                                                 o \in OptionTokens},
     pos  : {<<>>} \cup {<<id>> : id \in {<<"0">>, <<"x">>}}
                   \cup {<<id, mode>> : id \in {<<"0">>, <<"1">>, <<"2">>, <<"x">>},
                                        mode \in {"test", "bench", "other"}}]

InitDriver ==
    /\ InitExchange("SendRecvValue", 0, WholeBuffers, "idle", [p \in Parties |-> NoArgs],
                    Dealt(0, 0, NoTriplet, <<0, 0>>, <<0, 0>>, <<NoTriplet, NoTriplet>>))
    /\ used = [p \in Parties |-> NothingUsed]
    /\ setup = [p \in Parties |-> NoSetup]
    /\ store = NoStore
    /\ \E argv \in CommandLines :
         driver = [status |-> "options", argv |-> argv, next |-> 1, code |-> 0,
                   function_name |-> "", party_id |-> 0 - 1, exec_mode |-> "",
                   numbers |-> <<>>, ran |-> FALSE]

\* return from main / exit() with the status code
Return(d, code) == [d EXCEPT !.status = "exited", !.code = code]

\* one iteration of the while (true) loop around getopt_long
GetOpt ==
    /\ driver.status = "options"
    /\ LET d == driver
       IN  IF d.next > Len(d.argv.opts)
           THEN driver' = [d EXCEPT !.status = "positional"]
           ELSE LET o  == d.argv.opts[d.next]
                    nx == [d EXCEPT !.next = @ + 1]
                IN  driver' =
                      CASE o.opt \in {"p", "m", "i"} ->
                             IF StoI(o.optarg).thrown # "none" THEN Return(nx, EXIT_FAILURE)
                             ELSE [nx EXCEPT !.numbers = Append(@, StoI(o.optarg).value)]
                        [] o.opt = "n" -> [nx EXCEPT !.function_name = o.optarg]
                        [] o.opt = "h" -> Return(nx, EXIT_SUCCESS)
                        [] OTHER       -> Return(nx, EXIT_FAILURE)
    /\ UNCHANGED <<bitsize, op, env, pc, args, buf, tot, chan, wire, rcvd, ret,
                   total_bytes_sent, log, clear, party_vars, engine, oob, used, setup, store>>

\* if (optind + 1 < argc) { party_id = std::stoi(argv[optind]); ... } else { return 1; }
\* the std::stoi here is outside every try block
Positionals ==
    /\ driver.status = "positional"
    /\ LET d == driver
       IN  driver' =
             IF Len(d.argv.pos) < 2 THEN Return(d, 1)
             ELSE IF StoI(d.argv.pos[1]).thrown # "none" THEN [d EXCEPT !.status = "aborted"]
             ELSE IF StoI(d.argv.pos[1]).value \notin Parties THEN Return(d, 1)
             ELSE IF d.argv.pos[2] \notin {"test", "bench"} THEN Return(d, 1)
             ELSE [d EXCEPT !.status = "dispatch",
                            !.party_id = StoI(d.argv.pos[1]).value,
                            !.exec_mode = d.argv.pos[2]]
    /\ UNCHANGED <<bitsize, op, env, pc, args, buf, tot, chan, wire, rcvd, ret,
                   total_bytes_sent, log, clear, party_vars, engine, oob, used, setup, store>>

\* if (exec_mode == "test") { look function_name up in test_func_map ... } return 0;
Dispatch ==
    /\ driver.status = "dispatch"
    /\ driver' =
         IF driver.exec_mode = "test"
         THEN IF driver.function_name = "known" THEN [driver EXCEPT !.status = "running"]
              ELSE Return(driver, EXIT_FAILURE)
         ELSE Return(driver, 0)
    /\ UNCHANGED <<bitsize, op, env, pc, args, buf, tot, chan, wire, rcvd, ret,
                   total_bytes_sent, log, clear, party_vars, engine, oob, used, setup, store>>

\* test_func_map[function_name](): the function returns and main returns 0, or a
\* transport failure inside it ends the process with exit(EXIT_FAILURE)
RunFunction ==
    /\ driver.status = "running"
    /\ \/ driver' = Return([driver EXCEPT !.ran = TRUE], 0)
       \/ driver' = Return(driver, EXIT_FAILURE)
    /\ UNCHANGED <<bitsize, op, env, pc, args, buf, tot, chan, wire, rcvd, ret,
                   total_bytes_sent, log, clear, party_vars, engine, oob, used, setup, store>>

NextDriver == GetOpt \/ Positionals \/ Dispatch \/ RunFunction

SpecDriver == InitDriver /\ [][NextDriver]_vars

(***************************************************************************)
(* Spec: all of the above in one system                                    *)
(***************************************************************************)
Init == InitShare \/ InitMult \/ InitXfer

Next == DealShare \/ DealMult \/ \E p \in Parties : Step(p)

Spec == Init /\ [][Next]_vars

(***************************************************************************)
(* Properties of the exchange                                              *)
(***************************************************************************)
HasEvent(l, ev) == \E i \in 1 .. Len(l) : l[i] = ev

\* every occurrence of event b in l comes after an occurrence of event a
Before(l, a, b) == \A i \in 1 .. Len(l) : l[i] = b => \E j \in 1 .. (i - 1) : l[j] = a

\* the byte image of the value party p submitted as own
OwnBytes(p) == WordsToBytes(IF p = 0 THEN args[p].x_0 ELSE args[p].x_1)

\* C7: send_recv step order.  In every overload party 0 finishes sending its own value
\* before it starts receiving (it takes no byte from the stream earlier), and party 1
\* finishes receiving before it starts sending (it puts no byte on the stream earlier).
C7_StepOrder ==
    /\ Before(log[0], "send_end", "recv_begin")
    /\ Before(log[1], "recv_end", "send_begin")
    /\ rcvd[0] # <<>> => HasEvent(log[0], "send_end")
    /\ wire[1] # <<>> => HasEvent(log[1], "recv_end")

\* C7 happens: a vector exchange under short counts, completed by both parties.
C7_Witness ==
    /\ op = "SendRecvVector" /\ env.short /\ AllDone
    /\ log[0] = <<"send_begin", "send_end", "recv_begin", "recv_end">>
    /\ log[1] = <<"recv_begin", "recv_end", "send_begin", "send_end">>
    /\ Len(wire[0]) > env.cap

\* C8: send_recv post-state.  Once send_recv has returned on both parties, each
\* party's peer slot holds the value the other submitted, each own value is unchanged
\* and each direction of the stream carried exactly the byte image of the sender's own.
C8_PostState ==
    AllDone =>
      \A p \in Parties :
        /\ buf[p][Peer(p) + 1] = OwnBytes(Peer(p))
        /\ buf[p][p + 1] = OwnBytes(p)
        /\ wire[p] = OwnBytes(p)
        /\ rcvd[p] = OwnBytes(Peer(p))

\* C9: deadlock freedom of the staggered exchange.  Under fair scheduling of the two
\* processes both send_recv calls return, whatever the payload size and the capacity
\* of the socket buffer.
C9_BothReturn == <>AllDone

\* C9 happens: an exchange whose payload exceeds the socket buffer has returned on
\* both sides.
C9_Witness ==
    /\ AllDone /\ env.short
    /\ op = "SendRecvArray4"
    /\ Len(OwnBytes(0)) > env.cap
    /\ buf[1][1] = OwnBytes(0) /\ buf[0][2] = OwnBytes(1)

\* C10: full-buffer send under short writes.  When SendData has returned true, the
\* bytes it put on the stream are exactly buf[0..len), each once and in order.
C10_SendDataExact ==
    \A p \in Parties :
      (op = "SendRecvValue" /\ HasEvent(log[p], "send_end")) => wire[p] = OwnBytes(p)

\* C11: exact-length receive under short reads.  When RecvData has returned true for a
\* buffer of n bytes it has taken exactly n bytes from the stream, none of the next
\* message, and buffer[i] holds the i-th of them for every i < n.
C11_RecvDataExact ==
    \A p \in Parties :
      (op = "SendRecvValue" /\ HasEvent(log[p], "recv_end"))
      => /\ Len(rcvd[p]) = BytesPerWord
         /\ buf[p][Peer(p) + 1] = rcvd[p]

(***************************************************************************)
(* Properties of the Party life cycle                                      *)
(***************************************************************************)
\* C12: transport failure.  Whenever send() or recv() has returned zero or a negative
\* count to a party, its SendValue / RecvValue did not return: the process has closed
\* its sockets and exited with a non-zero status, and the bytes-sent counter is what it
\* was before the failed call.
C12_TransportFailure ==
    \A p \in Parties :
      fault[p].call # "none"
      => /\ fault[p].rv <= 0
         /\ pc[p] = "exited"
         /\ exit_code[p] # 0
         /\ ~HasConn(p) /\ ~Listening(p)
         /\ total_bytes_sent[p] = fault[p].before

\* C12 happens: party 0 completed one round, closed its sockets and called SendRecv
\* again, so its send() failed after one counted send; party 1's recv() then returned 0.
C12_Witness ==
    /\ fault[0].call = "send" /\ sends[0] = 1
    /\ total_bytes_sent[0] = BytesPerWord
    /\ pc[0] = "exited" /\ exit_code[0] = EXIT_FAILURE
    /\ fault[1].call = "recv" /\ fault[1].rv = 0
    /\ pc[1] = "exited" /\ exit_code[1] = EXIT_FAILURE

\* C13: re-start is a no-op.  StartCommunication on a started party leaves the party
\* state as it was; in particular the bytes-sent counter keeps its value.
C13_RestartNoOp ==
    [][\A p \in Parties :
         (is_started[p] /\ StartCommunication(p))
         => UNCHANGED <<total_bytes_sent, is_started, fds, open, pc>>]_vars

\* One step as seen by the bytes-sent counter of party p: outside SendRecv the counter
\* of a started party is 4n mod 2^32 for the n calls completed since the last reset, a
\* receive leaves it alone, ClearTotalBytesSent zeroes it, and it decreases only in a
\* reset (and, if wraps is allowed, when a counted send carries it past 2^32).
CounterStep(p, wraps) ==
    /\ (is_started'[p] /\ pc'[p] \in {"idle", "done"})
       => total_bytes_sent'[p] = (BytesPerWord * sends'[p]) % WordMod
    /\ Recv(p) => total_bytes_sent'[p] = total_bytes_sent[p]
    /\ ClearTotalBytesSent(p) => total_bytes_sent'[p] = 0
    /\ total_bytes_sent'[p] < total_bytes_sent[p]
       => \/ ClearTotalBytesSent(p)
          \/ StartCommunication(p)
          \/ wraps /\ Send(p) /\ total_bytes_sent[p] + BytesPerWord >= WordMod

\* C14: bytes-sent accounting.  After start() and n successful scalar send_recv calls
\* with no reset in between the counter is 4n mod 2^32 on either party; receives never
\* change it, it never decreases between resets, ClearTotalBytesSent sets it to 0.
C14_BytesSentAccounting == [][\A p \in Parties : CounterStep(p, FALSE)]_vars

\* C14 as amended: the same, except that between resets the counter decreases exactly
\* when a counted send wraps it around 2^32.
C14_BytesSentAccountingModulo == [][\A p \in Parties : CounterStep(p, TRUE)]_vars

\* C14 happens: both parties have completed three rounds since StartCommunication, over
\* a socket layer returning short counts, and each counter stands at 12.
C14_Witness ==
    /\ env.short
    /\ \A p \in Parties :
         /\ is_started[p] /\ pc[p] = "done"
         /\ sends[p] = MaxRounds - 1
         /\ total_bytes_sent[p] = BytesPerWord * (MaxRounds - 1)

\* C15: close is idempotent.  Of the closing calls a party makes in a row
\* (EndCommunication, then EndCommunication again or the destructor) only the first
\* releases anything, and no call releases a descriptor that is not one of the party's
\* own sockets.
C15_CloseIdempotent ==
    \A p \in Parties :
      /\ released[p].later = {}
      /\ "stdio" \notin released[p].first

(***************************************************************************)
(* Properties of construction                                              *)
(***************************************************************************)
\* C16: bit-width lower bound.  AdditiveSecretSharing(k) with k <= 1 throws and leaves
\* no engine to use; with k >= 2 it yields an engine of width k; the default
\* constructor yields an engine of the full word width (32).
C16_BitsizeLowerBound ==
    /\ engine.status = "invalid_argument"
       => ~engine.default /\ engine.arg <= 1 /\ \A p \in Parties : pc[p] = "new"
    /\ engine.status = "ok"
       => IF engine.default THEN bitsize = WordBits
          ELSE engine.arg >= 2 /\ bitsize = engine.arg

\* C16 happens: the constructor was called with k = 1 and threw.
C16_Witness ==
    /\ engine.status = "invalid_argument" /\ engine.arg = 1
    /\ \A p \in Parties : pc[p] = "new"

\* C17: bit-width upper bound.  Every engine that exists has a width in [2, 32]: the
\* constructor fails for a width above the word.
C17_BitsizeUpperBound ==
    engine.status = "ok" => bitsize \in 2 .. WordBits

(***************************************************************************)
(* Properties of the vector exchange with lengths chosen by each party     *)
(***************************************************************************)
\* the vector party p passes as its own, and the slot it passes for the peer's
OwnVec(p) == IF p = 0 THEN args[p].x_0 ELSE args[p].x_1
SlotVec(p) == IF p = 0 THEN args[p].x_1 ELSE args[p].x_0

\* a party's own length differs from the other party's slot length
LengthsDisagree == \E p \in Parties : Len(OwnVec(p)) # Len(SlotVec(Peer(p)))

Unread == \E p \in Parties : chan[p] # <<>>

\* C19: size disagreement is detected.  When the lengths of the two parties' vector
\* SendRecv calls do not agree, the two calls never both return with bytes left unread
\* in the channel.
C19_DesyncDetected ==
    (op = "SendRecvVector" /\ LengthsDisagree) => ~(AllDone /\ Unread)

\* C19 as it holds: a party whose slot is longer than the peer's vector never returns
\* (stalled read), and when that party is party 1 it sends nothing and party 0 never
\* returns either; when both parties return, each slot holds the first words of the
\* peer's vector (truncated read) and the rest of that vector lies unread in the channel.
C19_StalledOrTruncated ==
    (op = "SendRecvVector")
    => /\ \A p \in Parties :
            pc[p] = "done" => Len(OwnVec(Peer(p))) >= Len(SlotVec(p))
       /\ Len(OwnVec(0)) < Len(SlotVec(1)) => wire[1] = <<>> /\ pc[0] # "done"
       /\ AllDone
          => \A p \in Parties :
               LET sent == WordsToBytes(OwnVec(Peer(p)))
                   size == BytesPerWord * Len(SlotVec(p))
               IN  /\ buf[p][Peer(p) + 1] = SubSeq(sent, 1, size)
                   /\ chan[Peer(p)] = SubSeq(sent, size + 1, Len(sent))

\* C19 happens: party 0 sent more words than party 1's slot takes, both calls have
\* returned over a socket layer with short counts, and the surplus is unread.
C19_Witness ==
    /\ op = "SendRecvVector" /\ AllDone /\ env.short
    /\ Len(OwnVec(0)) > Len(SlotVec(1))
    /\ chan[0] # <<>>
    /\ BytesToWords(buf[1][1]) = SubSeq(OwnVec(0), 1, Len(SlotVec(1)))

(***************************************************************************)
(* Properties of the vector operations                                     *)
(***************************************************************************)
\* the sizes of x_vec, y_vec, bt_vec and z_vec of party p's call are not all equal
LengthsDiffer(p) ==
    \E n \in {Len(args[p].x), Len(args[p].y), Len(args[p].bt)} : n # args[p].num

\* C18: length mismatch is rejected.  A vector Mult, And or Or whose operand, triple
\* and output vectors are not all of one length never gets past its call: it sends
\* nothing and reads no element behind the end of a vector.
C18_LengthMismatchRejected ==
    \A p \in Parties :
      (op \in BatchOps /\ LengthsDiffer(p))
      => pc[p] = "call" /\ wire[p] = <<>> /\ ~oob[p]

\* the scalar operation a vector or pair operation batches
ScalarOf(o) ==
    CASE o \in {"MultVec", "Mult2"} -> "Mult"
      [] o = "AndVec"               -> "And"
      [] o = "OrVec"                -> "Or"

\* what the scalar operation returns to party p for position n of its vectors when the
\* peer's message is the n-th pair of words p received
ScalarAt(p, n) ==
    LET a    == args[p]
        lane == Args(<<>>, <<>>, a.x[n], a.y[n], a.bt[n])
        own  == ExchangeOperands(ScalarOf(op), p, bitsize, lane)[p + 1]
        peer == SubSeq(BytesToWords(rcvd[p]), 2 * n - 1, 2 * n)
    IN  Result(ScalarOf(op), p, bitsize, lane,
               IF p = 0 THEN own ELSE peer, IF p = 0 THEN peer ELSE own)

\* C20: batched equals scalar.  When a party has returned from vector Mult, And or Or
\* over n positions (its vectors holding at least n elements), or from Mult2, every
\* z[i] is what the scalar operation returns for x[i], y[i], bt[i] and the peer's
\* message for position i.
C20_BatchEqualsScalar ==
    \A p \in Parties :
      (op \in BatchOps \cup PairOps /\ pc[p] = "done" /\ ~ReadsOutOfRange(args[p]))
      => /\ Len(ret[p]) = args[p].num
         /\ \A n \in 1 .. args[p].num : ret[p][n] = ScalarAt(p, n)

\* C20 happens: vector Mult over the longest vectors, both parties returned, party 0's
\* first two results different and its last one non-zero and equal to the scalar Mult.
C20_Witness ==
    /\ op = "MultVec" /\ AllDone
    /\ args[0].num = MaxVecLen /\ ~LengthsDiffer(0)
    /\ ret[0][1] # ret[0][2]
    /\ ret[0][MaxVecLen] # 0
    /\ ret[0][MaxVecLen] = ScalarAt(0, MaxVecLen)

C22_TriplesUsedOnce ==
    \A p \in Parties : \A i \in PoolIndex : used[p][i] <= 1

(***************************************************************************)
(* Properties of the connection setup                                      *)
(***************************************************************************)
\* C30: single connection setup.  Whatever calls are made on a party, party 0 creates
\* its listening socket at most once and accepts at most once, party 1 creates its
\* socket and connects at most once; a started party has done so exactly once, however
\* often StartCommunication was called on it afterwards.
C30_SingleSetup ==
    \A p \in Parties :
      /\ setup[p].socket <= 1 /\ setup[p].accept <= 1 /\ setup[p].connect <= 1
      /\ setup[p].accept = (IF p = 0 /\ is_started[p] THEN 1 ELSE 0)
      /\ setup[p].connect = (IF p = 1 THEN setup[p].socket ELSE 0)
      /\ is_started[p] => setup[p].socket = 1
      /\ setup[p].again => is_started[p]

\* C30 happens: both parties are started, have exchanged a word, and each has had
\* StartCommunication called on it again.
C30_Witness ==
    /\ \A p \in Parties : is_started[p] /\ setup[p].again /\ round[p] > 0 /\ HasConn(p)
    /\ setup[0].socket = 1 /\ setup[0].accept = 1 /\ setup[0].connect = 0
    /\ setup[1].socket = 1 /\ setup[1].accept = 0 /\ setup[1].connect = 1

(***************************************************************************)
(* Properties of the triple files                                          *)
(***************************************************************************)
Loaded == store.call = "LoadBTShare"
LoadedFile == store.disk[store.path + 1]

\* C23: triple persistence round-trip.  When LoadBTShare has read a file that ExportBT
\* or ExportBTShare wrote, the loaded vector has the length and the (a, b, c) of the
\* vector that was written.
C23_TripleRoundTrip ==
    (Loaded /\ store.written[store.path + 1] # <<>>)
    => /\ store.outcome = "returned" /\ ~store.oob
       /\ store.bt_vec = store.written[store.path + 1][1]

\* C23 happens: a vector of the greatest length holding the largest word was written
\* by ExportBTShare to the second file and loaded back.
C23_Witness ==
    /\ Loaded /\ store.path = 1 /\ store.written[2] # <<>>
    /\ Len(store.bt_vec) = MaxVecLen
    /\ store.bt_vec[1].b = WordMod - 1 /\ store.bt_vec[MaxVecLen].a < store.bt_vec[1].b
    /\ store.bt_vec = store.written[2][1]
    /\ store.disk[1].kind = "file" /\ store.disk[1].text # store.disk[2].text

\* a text that is not a well-formed triple file: the count line is no number, fewer
\* lines follow than it announces, or one of them has fewer than three fields
Malformed(text) ==
    LET lines == Lines(text)
    IN  \/ lines = <<>>
        \/ ~IsNumber(lines[1])
        \/ Len(lines) - 1 < ParseDecimal(lines[1])
        \/ FieldsMissing(text)

\* C24: a malformed triple file is rejected.  LoadBTShare on a malformed file never
\* returns normally and never indexes a missing field.
C24_MalformedRejected ==
    (Loaded /\ LoadedFile.kind = "file" /\ Malformed(LoadedFile.text))
    => store.outcome # "returned" /\ ~store.oob

\* C25: a missing file is surfaced.  LoadBTShare on a file that cannot be opened never
\* returns normally.
C25_MissingFileSurfaced ==
    (Loaded /\ LoadedFile.kind # "file") => store.outcome # "returned"

(***************************************************************************)
(* Properties of the driver                                                *)
(***************************************************************************)
\* the command line has fewer than two positional arguments, a party_id that is not 0
\* or 1, or a mode that is not test or bench
UsageError(argv) ==
    \/ Len(argv.pos) < 2
    \/ argv.pos[1] \notin {<<"0">>, <<"1">>}
    \/ argv.pos[2] \notin {"test", "bench"}

\* the name given with -n (none given: the empty name) is not a known function
UnknownFunction(argv) ==
    LET names == SelectSeq(argv.opts, LAMBDA o : o.opt = "n")
    IN  names = <<>> \/ names[Len(names)].optarg # "known"

\* some -p / -m / -i argument is not a number or does not fit an int
BadNumber(argv) ==
    \E i \in 1 .. Len(argv.opts) :
      /\ argv.opts[i].opt \in {"p", "m", "i"}
      /\ ~IsNumber(argv.opts[i].optarg) \/ DecimalValue(argv.opts[i].optarg) > IntMax

HelpGiven(argv) == \E i \in 1 .. Len(argv.opts) : argv.opts[i].opt = "h"

\* C26: driver exit codes.  When main has ended on a command line without -h, it has
\* ended with a non-zero code if the command line has a usage error, an unknown function
\* name (in test or bench mode) or a bad -p/-m/-i argument; and whenever it has ended
\* with code 0, the requested function ran or -h was given.
C26_DriverExitCodes ==
    (driver.status \in {"exited", "aborted"})
    => LET failed == driver.status = "aborted" \/ driver.code # 0
       IN  /\ (/\ ~HelpGiven(driver.argv)
               /\ \/ UsageError(driver.argv)
                  \/ UnknownFunction(driver.argv)
                  \/ BadNumber(driver.argv))
              => failed
           /\ ~failed => driver.ran \/ HelpGiven(driver.argv)

(***************************************************************************)
(* Hiding of a single share                                                *)
(***************************************************************************)
\* every value Rand64() can leave in Mod's uint32_t parameter
CoinWords == 0 .. (WordMod - 1)

\* Share(v) at width k for each coin: the pairs <<coin, share>>
AdditiveShares(k, v) == {<<r, AdditiveShare(k, v, r)>> : r \in CoinWords}

BooleanShareValues(v, i) == {BooleanShare(v, r)[i] : r \in BOOLEAN}

\* C27: share hiding.  Once the dealer has shared v at width k, each component of
\* Share(v) ranges over all of [0, 2^k) as the coin ranges over its values; the share
\* depends on the coin only through its low k bits, and over one period of 2^k coins the
\* component takes 2^k different values, so every value of [0, 2^k) comes from the same
\* number of coins: the set and the distribution of each component are the same for
\* every v.  For the boolean engine each component ranges over {0, 1} as the coin bit
\* ranges over its two values.
C27_ShareHiding ==
    (\A p \in Parties : pc[p] = "call")
    => /\ op = "Reconst" =>
            LET sh     == AdditiveShares(bitsize, clear.x)
                values == 0 .. (2 ^ bitsize - 1)
                period == {t \in sh : t[1] \in values}
            IN  /\ \A i \in 1 .. 2 :
                     /\ clear.xs[i] \in values
                     /\ {t[2][i] : t \in sh} = values
                     /\ {t[2][i] : t \in period} = values
                /\ \A t \in sh : <<t[1] % (2 ^ bitsize), t[2]>> \in period
       /\ op = "BoolReconst" =>
            \A i \in 1 .. 2 :
              /\ clear.xs[i] \in {0, 1}
              /\ BooleanShareValues(clear.x, i) = {0, 1}

\* C27 happens: a secret other than 0 has been shared at a width below the word with
\* a second share that wrapped around, and a bit 1 has been shared with first share 1.
C27_Witness ==
    /\ \A p \in Parties : pc[p] = "call"
    /\ \/ /\ op = "Reconst" /\ bitsize < WordBits
          /\ clear.x > 0 /\ clear.xs[1] > clear.x /\ clear.xs[2] > 0
       \/ /\ op = "BoolReconst" /\ clear.x = 1 /\ clear.xs = <<1, 0>>

(***************************************************************************)
(* Rounds of the engine operations                                         *)
(***************************************************************************)
\* the words each party submits in one call of operation o on n elements
PayloadWordsOf(o, n) ==
    CASE o \in {"Reconst", "BoolReconst"} -> 1
      [] o \in {"Mult", "And", "Or"}      -> 2
      [] o = "Mult2"                      -> 4
      [] OTHER                            -> 2 * n

\* the number of times ev stands in the log l
Count(l, ev) == Cardinality({i \in 1 .. Len(l) : l[i] = ev})

\* C28: one round per operation.  In a sequence of calls of the same engine operation
\* by both parties, a call hands Party::SendRecv an own buffer and a peer buffer of 1
\* (Reconst), 2 (Mult, And, Or), 4 (Mult2) or 2n (vector Mult, And, Or on n elements)
\* words, the same for party 0 and party 1 in the same call; a call starts at most one
\* send and one receive and has finished exactly one of each when it returns; a party
\* that is between calls has completed as many exchanges as it has made calls, so two
\* parties that have made the same number of calls have completed the same number of
\* exchanges; over a socket layer that transfers whole buffers the bytes put on the
\* wire and taken from it in a call are those of the payload.
C28_OneRoundPerOperation ==
    /\ \A p \in Parties :
         LET words == PayloadWordsOf(op, RoundLen(op, round[p] - 1))
         IN  /\ pc[p] \in {"first", "second", "done"} =>
                  /\ Len(buf[p][1]) = words * BytesPerWord
                  /\ Len(buf[p][2]) = words * BytesPerWord
                  /\ Count(log[p], "send_begin") <= 1
                  /\ Count(log[p], "recv_begin") <= 1
             /\ pc[p] = "done" =>
                  /\ \A ev \in {"send_begin", "send_end", "recv_begin", "recv_end"} :
                       Count(log[p], ev) = 1
                  /\ ~env.short => /\ Len(wire[p]) = words * BytesPerWord
                                   /\ Len(rcvd[p]) = words * BytesPerWord
             /\ Outside(p) => sends[p] = round[p]
    /\ (\A p \in Parties : Outside(p)) /\ round[0] = round[1] => sends[0] = sends[1]

\* C28 happens: both parties have returned from their last vector Or, party 0 through
\* the negating branch, each having exchanged 2n words for the longest vectors.
C28_Witness ==
    /\ op = "OrVec" /\ AllDone
    /\ \A p \in Parties :
         /\ round[p] = SessionRounds /\ sends[p] = SessionRounds
         /\ args[p].num = RoundLen(op, SessionRounds - 1) /\ args[p].num > 1
         /\ Len(buf[p][Peer(p) + 1]) = 2 * args[p].num * BytesPerWord

(***************************************************************************)
(* Synchrony across rounds                                                 *)
(***************************************************************************)
\* C29: strict synchrony across rounds.  In a sequence of scalar SendRecv calls by both
\* parties, when a party returns from its i-th call its peer slot holds the i-th value
\* the peer submitted as own; and a party that has started sending in its call i+1 has
\* received the peer's payload of call i, which the peer has therefore sent completely
\* (within a call, party 1 does not start sending before its receive has ended).
C29_StrictSynchrony ==
    \A p \in Parties :
      /\ (pc[p] = "done" /\ round[p] >= 1) =>
           BytesToWords(buf[p][Peer(p) + 1]) = <<RoundWord(Peer(p), round[p] - 1)>>
      /\ (round[p] >= 1 /\ HasEvent(log[p], "send_begin")) =>
           /\ \/ round[p] = 1
              \/ round[Peer(p)] >= round[p]
              \/ round[Peer(p)] = round[p] - 1 /\ HasEvent(log[Peer(p)], "send_end")
           /\ p = 1 => HasEvent(log[p], "recv_end")

\* the second part of C29 alone: the order of the rounds
C29_RoundsInOrder ==
    \A p \in Parties :
      (round[p] >= 1 /\ HasEvent(log[p], "send_begin")) =>
        /\ \/ round[p] = 1
           \/ round[Peer(p)] >= round[p]
           \/ round[Peer(p)] = round[p] - 1 /\ HasEvent(log[Peer(p)], "send_end")
        /\ p = 1 => HasEvent(log[p], "recv_end")

(***************************************************************************)
(* Properties of the two endpoints of a Party                              *)
(***************************************************************************)
\* C31: role exclusivity.  Party 0 never operates on its connector p1_ and party 1
\* never operates on its listener p0_: the endpoints a party has set up, connected,
\* cleared the counter of or closed are at most the one of its id.
C31_RoleExclusive == \A p \in Parties : setup[p].ends \subseteq {Endpoint(p)}

(***************************************************************************)
(* Canonical form of the values the engines return                         *)
(***************************************************************************)
Canonical(k, w) == w \in 0 .. (2 ^ k - 1)

CanonicalTriplet(k, t) == Canonical(k, t.a) /\ Canonical(k, t.b) /\ Canonical(k, t.c)

\* the words operation o returned as v: a word, or the words of an array or vector
Returned(o, v) == IF o \in {"Reconst", "Mult"} THEN {v} ELSE {v[i] : i \in DOMAIN v}

\* C32: arithmetic canonical form.  At every width k, on arbitrary words as clear
\* values, operand shares and triple shares, both components of Share, all three
\* components of a generated triple and of both triple shares of ShareBeaverTriples,
\* and every word returned to a party by Reconst, Mult, Mult2 and the vector Mult lie
\* in [0, 2^k).
C32_ArithmeticCanonical ==
    /\ (op = "Share" /\ pc[0] = "idle") =>
         Canonical(bitsize, clear.xs[1]) /\ Canonical(bitsize, clear.xs[2])
    /\ (op = "Generate" /\ pc[0] = "idle") => CanonicalTriplet(bitsize, clear.bt)
    /\ (op = "ShareTriples" /\ pc[0] = "idle") =>
         CanonicalTriplet(bitsize, clear.bts[1]) /\ CanonicalTriplet(bitsize, clear.bts[2])
    /\ \A p \in Parties :
         (op \in {"Reconst", "Mult", "Mult2", "MultVec"} /\ pc[p] = "done") =>
           \A w \in Returned(op, ret[p]) : Canonical(bitsize, w)

\* C32 happens: at a width below the word a party has returned from Mult2 called on
\* operands and triple shares above 2^k, with two results that are not both 0.
C32_Witness ==
    /\ bitsize < WordBits
    /\ op = "Mult2" /\ pc[0] = "done"
    /\ args[0].x[1] >= 2 ^ bitsize /\ args[0].bt[1].a >= 2 ^ bitsize
    /\ ret[0] # <<0, 0>>

(***************************************************************************)
(* Bits of the boolean engine                                              *)
(***************************************************************************)
IsBit(w) == w \in {0, 1}

BitTriplet(t) == IsBit(t.a) /\ IsBit(t.b) /\ IsBit(t.c)

Residue(n, k) == ((n % (2 ^ k)) + 2 ^ k) % (2 ^ k)

\* C34: modular reduction is exact.  At every width k from 2 to the word width and for
\* every word w, Mod(w, k) is w mod 2^k (w itself at the word width), and Mod applied to
\* the sum, the difference and the product of two words computed in the word (wrapped
\* modulo 2^w) is the residue modulo 2^k of the integer sum, difference and product.
C34_ModExact ==
    (op = "Mod" /\ pc[0] = "destroyed") =>
      /\ clear.xs[1] = Residue(clear.x, bitsize)
      /\ bitsize = WordBits => clear.xs[1] = clear.x
      /\ clear.xs[2] = Residue(clear.x + clear.y, bitsize)
      /\ clear.ys[1] = Residue(clear.x - clear.y, bitsize)
      /\ clear.ys[2] = Residue(clear.x * clear.y, bitsize)

\* C34 happens: at a width below the word, a difference that wrapped (x < y), a sum and
\* a product that overflowed the word have been reduced, to residues that are not 0.
C34_Witness ==
    /\ op = "Mod" /\ pc[0] = "destroyed"
    /\ bitsize < WordBits
    /\ clear.x < clear.y
    /\ clear.x + clear.y >= WordMod
    /\ clear.x * clear.y >= WordMod
    /\ clear.xs[2] > 0 /\ clear.ys[1] > 0 /\ clear.ys[2] > 0

(***************************************************************************)
(* What a multiplication reveals                                           *)
(***************************************************************************)
\* the multiplications of one call and the operand and triple shares of each
Multiplications(o, a) ==
    IF o \in {"Mult", "And"} THEN <<[x |-> a.x, y |-> a.y, bt |-> a.bt]>>
    ELSE [i \in 1 .. a.num |-> [x |-> a.x[i], y |-> a.y[i], bt |-> a.bt[i]]]

\* the pair the claim lets a party reveal for one multiplication
MaskedPair(o, k, m) ==
    IF o \in {"And", "AndVec"}
    THEN <<(m.x + m.bt.a) % 2, (m.y + m.bt.b) % 2>>
    ELSE <<Residue(m.x - m.bt.a, k), Residue(m.y - m.bt.b, k)>>

\* the arguments a with the a and b of the triple share of multiplication i replaced
WithMask(o, a, i, u, v) ==
    IF o \in {"Mult", "And"} THEN [a EXCEPT !.bt = Triplet(u, v, @.c)]
    ELSE [a EXCEPT !.bt[i] = Triplet(u, v, @.c)]

\* the values of one share at width k (bits for the boolean engine)
ShareValues(o, k) == IF o \in {"And", "AndVec"} THEN {0, 1} ELSE 0 .. (2 ^ k - 1)

\* C35: only masked operands are revealed.  What a party has put on the wire when it
\* returns from Mult, Mult2, the vector Mult, And or the vector And is, for each
\* multiplication of the call in turn, the two words (x - a, y - b) mod 2^k of its own
\* operand and triple shares (x xor a, y xor b for And) and nothing else; and with the
\* operand shares of the call fixed, as (a, b) of a multiplication ranges over all pairs
\* of share values the pair the operation submits for it ranges over all pairs of share
\* values, so the set of possible messages is the same whatever the operand shares are.
C35_OnlyMaskedRevealed ==
    \A p \in Parties :
      (op \in MaskOps /\ pc[p] = "done") =>
        LET ms == Multiplications(op, args[p])
            vs == ShareValues(op, bitsize)
        IN  /\ BytesToWords(wire[p])
                 = [j \in 1 .. 2 * Len(ms) |-> MaskedPair(op, bitsize, ms[(j + 1) \div 2])
                                                 [2 - (j % 2)]]
            /\ \A i \in 1 .. Len(ms) :
                 {<<ExchangeOperands(op, p, bitsize, WithMask(op, args[p], i, u, v))
                        [p + 1][2 * i - 1],
                    ExchangeOperands(op, p, bitsize, WithMask(op, args[p], i, u, v))
                        [p + 1][2 * i]>> : u \in vs, v \in vs}
                   = vs \X vs

\* C35 happens: at a width below the word party 1 has returned from the vector Mult on
\* operand shares above 2^k, having sent masked x shares that are not 0.
C35_Witness ==
    /\ op = "MultVec" /\ pc[1] = "done"
    /\ bitsize < WordBits
    /\ args[1].num = MaxVecLen
    /\ args[1].x[1] >= 2 ^ bitsize
    /\ Len(wire[1]) = 2 * MaxVecLen * BytesPerWord
    /\ BytesToWords(wire[1])[1] > 0 /\ BytesToWords(wire[1])[2 * MaxVecLen - 1] > 0

(***************************************************************************)
(* Properties of a receive whose peer is gone                              *)
(***************************************************************************)
\* party p is in the receive of SendRecv, its peer has closed its end of the connection
\* (EndCommunication, destruction, exit or a signal) and nothing the peer sent is left
PeerGone(p) ==
    /\ CurPhase(p) = "recv"
    /\ EndClosed(Peer(p))
    /\ chan[Peer(p)] = <<>>

\* what party p's process holds: its position, its buffers, what it received and returned
Progress(p) == <<pc[p], buf[p], rcvd[p], ret[p], fault[p], open[p], exit_code[p]>>

\* C36: peer failure does not hang the survivor in a receive.  While a party is in a
\* receive whose peer is gone and has left nothing undelivered, its recv() can return (a count <= 0) and cannot deliver
\* anything; and the step the party takes from there is that failure: the count is <= 0,
\* nothing is stored or returned as received, every socket of the party is closed and
\* the process has exited with EXIT_FAILURE.
C36_PeerFailureEndsReceive ==
    /\ [](\A p \in Parties : PeerGone(p) => (ENABLED RecvFails(p)) /\ ~(ENABLED Recv(p)))
    /\ [][\A p \in Parties :
            (PeerGone(p) /\ Progress(p)' # Progress(p))
            => /\ fault'[p].call = "recv" /\ fault'[p].rv <= 0
               /\ pc'[p] = "exited" /\ exit_code'[p] = EXIT_FAILURE
               /\ open'[p] = NoneOpen
               /\ buf'[p] = buf[p] /\ rcvd'[p] = rcvd[p] /\ ret'[p] = ret[p]]_vars

\* C36 as stated, without regard to what the peer sent before it closed: a receive
\* entered or pending once the peer has closed can only fail.
C36_ClosedPeerFailsReceive ==
    \A p \in Parties :
      (CurPhase(p) = "recv" /\ EndClosed(Peer(p)))
      => (ENABLED RecvFails(p)) /\ ~(ENABLED Recv(p))

\* C36 happens: party 0 ended the communication without a round; party 1, connected,
\* called SendRecv, its recv() returned 0 and it has exited with failure.
C36_Witness ==
    /\ pc[0] = "idle" /\ is_started[0] /\ ~HasConn(0) /\ round[0] = 0
    /\ round[1] = 1 /\ fault[1].call = "recv" /\ fault[1].rv = 0
    /\ pc[1] = "exited" /\ exit_code[1] = EXIT_FAILURE /\ open[1] = NoneOpen
    /\ rcvd[1] = <<>>

(***************************************************************************)
(* Properties of the started latch                                         *)
(***************************************************************************)
\* C37: the started latch is monotone.  No step clears is_started_ of a party, not
\* EndCommunication either; StartCommunication on a started party - one that has ended
\* the communication included - makes no socket, accept or connect call and changes no
\* descriptor; and a started party without a connection never has one again.
C37_LatchMonotone ==
    [][\A p \in Parties :
         is_started[p]
         => /\ is_started'[p]
            /\ StartCommunication(p)
               => /\ setup'[p].socket = setup[p].socket
                  /\ setup'[p].accept = setup[p].accept
                  /\ setup'[p].connect = setup[p].connect
                  /\ open'[p] = open[p] /\ fds'[p] = fds[p] /\ pc'[p] = pc[p]
            /\ ~HasConn(p) => ~HasConn(p)']_vars

\* C37 happens: both parties exchanged a word and ended the communication, then
\* StartCommunication was called on each again: the latch is set, the counter is
\* cleared, and neither has a connection or a listening socket.
C37_Witness ==
    \A p \in Parties :
      /\ is_started[p] /\ setup[p].again
      /\ round[p] = 1 /\ pc[p] = "idle"
      /\ released[p].calls > 0
      /\ total_bytes_sent[p] = 0
      /\ ~HasConn(p) /\ ~Listening(p)

(***************************************************************************)
(* Properties of the channel between rounds                                *)
(***************************************************************************)
\* C38: no bytes in flight between rounds.  Whenever both parties are outside SendRecv
\* having completed the same number of exchanges of equal size, neither direction of the
\* channel holds an undelivered byte; and no direction ever holds more than the payload
\* of the one exchange its sender is in (or last completed).
C38_NoBytesInFlight ==
    /\ ((\A p \in Parties : Outside(p)) /\ round[0] = round[1])
       => \A p \in Parties : chan[p] = <<>>
    /\ \A p \in Parties : Len(chan[p]) <= Len(buf[p][p + 1])

(***************************************************************************)
(* Properties of the start-up order                                        *)
(***************************************************************************)
\* party 1's connect was refused: it exited in StartCommunication, never started
Refused(p) == pc[p] = "exited" /\ ~is_started[p] /\ setup[p].connect > 0

\* C39: start-up ordering.  Party 1 is started only if party 0 had created its listening
\* socket before, and party 0 is started only if party 1 is: its StartCommunication
\* does not return before the peer has connected.  A StartCommunication of party 1 while
\* party 0 is not listening is one connect call, which fails, and leaves party 1 exited
\* with EXIT_FAILURE for good; party 0 then stays in (or, starting later, enters and
\* stays in) accept.
C39_StartupOrdering ==
    /\ [](/\ is_started[1] => setup[0].socket = 1
          /\ is_started[0] => is_started[1]
          /\ pc[0] = "accept" => ~is_started[0] /\ Listening(0)
          /\ Refused(1) => /\ exit_code[1] = EXIT_FAILURE /\ setup[1].connect = 1
                           /\ ~is_started[0] /\ ~(ENABLED Accept(0)))
    /\ [][/\ (StartCommunication(1) /\ ~is_started[1] /\ ~Listening(0)) => Refused(1)'
          /\ Refused(1) => Refused(1)' /\ setup'[1] = setup[1]
          /\ (Refused(1) /\ pc[0] = "accept") => pc'[0] = "accept"
          /\ (Refused(1) /\ StartCommunication(0)) => pc'[0] = "accept"]_vars

\* C39 happens: party 1 called StartCommunication first, its one connect failed and it
\* exited with failure; party 0 then called StartCommunication and is listening, in accept.
C39_Witness ==
    /\ Refused(1) /\ exit_code[1] = EXIT_FAILURE /\ setup[1].connect = 1
    /\ ~HasConn(1)
    /\ pc[0] = "accept" /\ Listening(0) /\ ~is_started[0] /\ setup[0].accept = 0

====
